---- MODULE Spec2Model ----
(***************************************************************************)
(* GoSubtitle: conversion of a Movie XML timed-text export into SRT cues.  *)
(*                                                                         *)
(* The module models src/modules/subtitle_processor.py (extraction, the    *)
(* overlap merger, the segment splitter with its timing allocation, the    *)
(* timestamp formatter, the offset utility) and the Console.run driver of  *)
(* src/modules/console.py.                                                 *)
(*                                                                         *)
(* Representation choices                                                  *)
(*  - A Python str is a sequence of one-character strings, so strip(),     *)
(*    split(), capitalize(), endswith() and concatenation are computed on  *)
(*    characters as the interpreter computes them.                         *)
(*  - A Python float is a rational [n, d] in lowest terms.  Every float    *)
(*    operation of the splitter and of apply_offset is the exact result    *)
(*    rounded to the nearest value with a Precision-bit significand, ties  *)
(*    to even (IEEE-754 round-to-nearest; CPython's binary64 has 53 bits,  *)
(*    the model a narrower significand because TLC's integers are 32-bit). *)
(*    Exponent range is unbounded (no overflow, no subnormals, no NaN).    *)
(*  - A cue is the dict {'start','stop','text','speaker'} as a record.     *)
(***************************************************************************)
EXTENDS Integers, Sequences, FiniteSets, TLC

VARIABLES
    \* the SubtitleProcessor instance
    max_words_per_line, \* self.max_words_per_line
    words_per_second,   \* self.words_per_second
    \* _merge_overlapping, one loop iteration per step
    mo_subtitles,       \* the argument `subtitles`
    mo_i,               \* position of the for loop (1-based index of the next cue)
    merged_subtitles,   \* the local list `merged_subtitles`
    mo_pc,              \* "idle" | "loop" | "returned"
    \* _split_subtitle_entry, called once
    sp_subtitle,        \* the argument `subtitle`
    sp_result,          \* the returned list
    sp_pc,              \* "idle" | "call" | "returned"
    \* format_time, called once
    ft_frames,          \* the argument `frames`
    ft_result,          \* the returned string
    ft_pc,              \* "idle" | "call" | "returned"
    \* the input file and the caller's cue list
    xml_file,           \* content of the input file
    self_subtitles,     \* self.subtitles: the list the caller holds
    \* apply_offset called on that list
    ao_original,        \* the list as parse_xml returned it
    ao_offsets,         \* the offsets passed to apply_offset so far
    \* Console.run
    params,             \* [file, offset, replace_speakers, max_words]
    run_pc,             \* position in Console.run
    srt_file,           \* the output file: [written, blocks]
    message,            \* the last line Console.run printed
    replacement_count,  \* the counts apply_speaker_replacements reported last
    \* MainWindow
    mw_file,            \* content of the file the last open_file read
    mw_subtitles,       \* self.subtitles
    current_offset,     \* self.current_offset
    spin_value,         \* offsetSpinBox.value()
    mw_dialog,          \* the message box the last handler showed, "" if none
    mw_loads,           \* open_file calls so far
    mw_entered          \* spin box values entered since the list was loaded

processorVars == <<max_words_per_line, words_per_second>>
mergeVars == <<mo_subtitles, mo_i, merged_subtitles, mo_pc>>
splitVars == <<sp_subtitle, sp_result, sp_pc>>
formatVars == <<ft_frames, ft_result, ft_pc>>
listVars == <<xml_file, self_subtitles>>
offsetVars == <<ao_original, ao_offsets>>
consoleVars == <<params, run_pc, srt_file, message, replacement_count>>
windowVars == <<mw_file, mw_subtitles, current_offset, spin_value, mw_dialog, mw_loads,
                mw_entered>>
vars == <<processorVars, mergeVars, splitVars, formatVars, listVars, offsetVars,
          consoleVars, windowVars>>
\* what the steps of one specification leave alone
notMerge == <<processorVars, splitVars, formatVars, listVars, offsetVars, consoleVars,
              windowVars>>
notSplit == <<mergeVars, formatVars, listVars, offsetVars, consoleVars,
              windowVars>>
notFormat == <<processorVars, mergeVars, splitVars, listVars, offsetVars, consoleVars,
               windowVars>>
notOffset == <<processorVars, mergeVars, splitVars, formatVars, consoleVars,
               windowVars>>
notWindow == <<processorVars, mergeVars, splitVars, formatVars, listVars, offsetVars,
               consoleVars>>
notConsole == <<mergeVars, splitVars, formatVars, offsetVars,
                windowVars>>

(***************************************************************************)
(* Bounds of the model                                                     *)
(***************************************************************************)
Precision == 8          \* significand bits of the modelled float
MaxMergeLen == 3        \* longest cue list handed to _merge_overlapping
MaxTextWords == 4       \* most words in a generated cue text
MaxCap == 3             \* largest max_words_per_line tried by SpecSplit
MaxFrames == 2200       \* SpecFormat formats every frame count 0..MaxFrames
MaxSounds == 2          \* most sound elements in a generated document
MaxOffsetCalls == 2     \* most apply_offset calls in a run of SpecOffset
MaxLoads == 2           \* most open_file calls in a run of SpecWindow
MaxOffsetChanges == 3   \* most spin box changes on one loaded list

(***************************************************************************)
(* Numbers: rationals in lowest terms and the float rounding               *)
(***************************************************************************)
Abs(i) == IF i < 0 THEN -i ELSE i

RECURSIVE GCD(_, _)
GCD(a, b) == IF b = 0 THEN a ELSE GCD(b, a % b)

Norm(n, d) ==
    LET g == GCD(Abs(n), Abs(d))
        s == IF d < 0 THEN -1 ELSE 1
    IN  [n |-> s * (n \div g), d |-> s * (d \div g)]

R(i) == [n |-> i, d |-> 1]
RNeg(a) == [n |-> -a.n, d |-> a.d]
RAdd(a, b) == Norm(a.n * b.d + b.n * a.d, a.d * b.d)
RSub(a, b) == Norm(a.n * b.d - b.n * a.d, a.d * b.d)
RMul(a, b) == Norm(a.n * b.n, a.d * b.d)
RDiv(a, b) == Norm(a.n * b.d, a.d * b.n)
RLess(a, b) == a.n * b.d < b.n * a.d
RLeq(a, b) == a.n * b.d <= b.n * a.d

RECURSIVE Pow2(_)
Pow2(k) == IF k = 0 THEN 1 ELSE 2 * Pow2(k - 1)

\* floor(log2(n/d)) for n, d > 0
RECURSIVE Log2Up(_, _)
Log2Up(n, d) == IF 2 * d <= n THEN 1 + Log2Up(n, 2 * d) ELSE 0
RECURSIVE Log2Down(_, _)
Log2Down(n, d) == IF n < d THEN Log2Down(2 * n, d) - 1 ELSE 0
Log2Floor(n, d) == IF n >= d THEN Log2Up(n, d) ELSE Log2Down(n, d)

\* num/den > 0 rounded to the nearest integer, ties to even
RoundHalfEven(num, den) ==
    LET m0 == num \div den
        r == num % den
    IN  IF 2 * r > den \/ (2 * r = den /\ m0 % 2 = 1) THEN m0 + 1 ELSE m0

\* n/d > 0 rounded to a multiple of 2^(-s); g = GCD(2^s, d) when s >= 0
FlScaleUp(n, d, s, g) ==
    Norm(RoundHalfEven(n * (Pow2(s) \div g), d \div g), Pow2(s))
FlScaled(n, d, s) ==
    IF s >= 0 THEN FlScaleUp(n, d, s, GCD(Pow2(s), d))
    ELSE R(RoundHalfEven(n, d * Pow2(-s)) * Pow2(-s))

\* n/d > 0 rounded to Precision significant bits, ties to even
FlPos(n, d) == FlScaled(n, d, Precision - 1 - Log2Floor(n, d))

Fl(q) ==
    IF q.n = 0 THEN R(0)
    ELSE IF q.n > 0 THEN FlPos(q.n, q.d)
    ELSE RNeg(FlPos(-q.n, q.d))

\* the float operators of the interpreter
fadd(a, b) == Fl(RAdd(a, b))
fsub(a, b) == Fl(RSub(a, b))
fmul(a, b) == Fl(RMul(a, b))
fdiv(a, b) == Fl(RDiv(a, b))
fmax(a, b) == IF RLess(a, b) THEN b ELSE a

(***************************************************************************)
(* Strings: sequences of characters                                        *)
(***************************************************************************)
NL == "\n"
Whitespace == {" ", NL}

RECURSIVE lstrip(_)
lstrip(s) == IF s # <<>> /\ Head(s) \in Whitespace THEN lstrip(Tail(s)) ELSE s

RECURSIVE rstrip(_)
rstrip(s) ==
    IF s # <<>> /\ s[Len(s)] \in Whitespace THEN rstrip(SubSeq(s, 1, Len(s) - 1)) ELSE s

strip(s) == lstrip(rstrip(s))

\* s.split(sep) for a one-character separator: the pieces between separators
RECURSIVE split_on(_, _, _)
split_on(s, sep, cur) ==
    IF s = <<>> THEN <<cur>>
    ELSE IF Head(s) = sep THEN <<cur>> \o split_on(Tail(s), sep, <<>>)
    ELSE split_on(Tail(s), sep, Append(cur, Head(s)))

\* s.split(): the maximal runs of non-whitespace characters
RECURSIVE split_ws(_, _)
split_ws(s, cur) ==
    IF s = <<>> THEN (IF cur = <<>> THEN <<>> ELSE <<cur>>)
    ELSE IF Head(s) \in Whitespace
         THEN (IF cur = <<>> THEN <<>> ELSE <<cur>>) \o split_ws(Tail(s), <<>>)
    ELSE split_ws(Tail(s), Append(cur, Head(s)))

split(s) == split_ws(s, <<>>)

(***************************************************************************)
(* SubtitleProcessor._merge_overlapping                                    *)
(***************************************************************************)
\* line 177, second conjunct: subtitle['start'] < merged_subtitles[-1]['stop']
overlaps_never(last, subtitle) == FALSE
overlaps_touching(last, subtitle) == RLeq(subtitle.start, last.stop)
overlaps_by_start(last, subtitle) == RLess(subtitle.start, last.start)
overlaps(last, subtitle) == RLess(subtitle.start, last.stop)

\* lines 182-185
combined_speaker_swapped(last, subtitle) ==
    IF subtitle.speaker # last.speaker
    THEN subtitle.speaker \o <<"/">> \o last.speaker
    ELSE last.speaker
combined_speaker(last, subtitle) ==
    IF subtitle.speaker # last.speaker
    THEN last.speaker \o <<"/">> \o subtitle.speaker
    ELSE last.speaker

\* line 188
combined_text(last, subtitle) == last.text \o <<NL>> \o subtitle.text

\* lines 179-193: the accumulator after a merge
merge_into(last, subtitle) ==
    [start |-> last.start,
     stop |-> fmax(last.stop, subtitle.stop),
     text |-> combined_text(last, subtitle),
     speaker |-> combined_speaker(last, subtitle)]

\* lines 176-198: the body of the for loop
merge_iteration(merged, subtitle) ==
    IF merged # <<>> /\ overlaps(merged[Len(merged)], subtitle)
    THEN [merged EXCEPT ![Len(merged)] = merge_into(@, subtitle)]
    ELSE Append(merged, subtitle)

RECURSIVE merge_loop(_, _, _)
merge_loop(subtitles, i, merged) ==
    IF i > Len(subtitles) THEN merged
    ELSE merge_loop(subtitles, i + 1, merge_iteration(merged, subtitles[i]))

_merge_overlapping(subtitles) ==
    IF subtitles = <<>> THEN <<>> ELSE merge_loop(subtitles, 1, <<>>)

(***************************************************************************)
(* SubtitleProcessor: configuration constants (lines 25-28)                *)
(***************************************************************************)
FPS == 24
DEFAULT_MAX_WORDS_PER_LINE == 10
DEFAULT_WORDS_PER_SECOND == [n |-> 5, d |-> 2]
MIN_SUBTITLE_DURATION == [n |-> 1, d |-> 2]

(***************************************************************************)
(* SubtitleProcessor._split_subtitle_entry: segmentation (lines 215-264)   *)
(***************************************************************************)
sentence_endings_without_colon == <<<<".", " ">>, <<"!", " ">>, <<"?", " ">>>>
sentence_endings == <<<<".", " ">>, <<"!", " ">>, <<"?", " ">>, <<":", " ">>>>

endswith(s, suffix) ==
    /\ Len(s) >= Len(suffix)
    /\ SubSeq(s, Len(s) - Len(suffix) + 1, Len(s)) = suffix

\* lines 244-247
ends_with_sentence(current_segment) ==
    \E k \in 1..Len(sentence_endings) :
        endswith(rstrip(current_segment), strip(sentence_endings[k]))

\* line 250, second disjunct: current_word_count >= self.max_words_per_line
word_limit_exceeded(current_word_count, max_words) == current_word_count > max_words
word_limit_reached(current_word_count, max_words) == current_word_count >= max_words

\* lines 232-260: the while loop over the words of one paragraph, then the
\* remaining text; st = [current_segment, segments]
RECURSIVE scan_words(_, _, _, _)
scan_words_dropping_word(words, i, st, max_words) ==
    IF i > Len(words)
    THEN IF st.current_segment # <<>>
         THEN Append(st.segments, strip(st.current_segment))
         ELSE st.segments
    ELSE LET word == words[i]
             current_segment == st.current_segment
             current_word_count ==
                 IF current_segment # <<>> THEN Len(split(current_segment)) ELSE 0
             test_segment ==
                 IF current_segment # <<>> THEN current_segment \o <<" ">> \o word
                 ELSE word
         IN  IF /\ current_segment # <<>>
                /\ (\/ ends_with_sentence(current_segment)
                    \/ word_limit_reached(current_word_count, max_words))
             THEN scan_words(words, i + 1,
                     [current_segment |-> <<>>,
                      segments |-> Append(st.segments, strip(current_segment))],
                     max_words)
             ELSE scan_words(words, i + 1,
                     [current_segment |-> test_segment, segments |-> st.segments],
                     max_words)
scan_words(words, i, st, max_words) ==
    IF i > Len(words)
    THEN IF st.current_segment # <<>>
         THEN Append(st.segments, strip(st.current_segment))
         ELSE st.segments
    ELSE LET word == words[i]
             current_segment == st.current_segment
             current_word_count ==
                 IF current_segment # <<>> THEN Len(split(current_segment)) ELSE 0
             test_segment ==
                 IF current_segment # <<>> THEN current_segment \o <<" ">> \o word
                 ELSE word
         IN  IF /\ current_segment # <<>>
                /\ (\/ ends_with_sentence(current_segment)
                    \/ word_limit_reached(current_word_count, max_words))
             THEN scan_words(words, i + 1,
                     [current_segment |-> word,
                      segments |-> Append(st.segments, strip(current_segment))],
                     max_words)
             ELSE scan_words(words, i + 1,
                     [current_segment |-> test_segment, segments |-> st.segments],
                     max_words)

\* lines 227-260: the for loop over the paragraphs
RECURSIVE scan_paragraphs(_, _, _, _)
scan_paragraphs(paragraphs, p, segments, max_words) ==
    IF p > Len(paragraphs) THEN segments
    ELSE scan_paragraphs(paragraphs, p + 1,
            scan_words(split(paragraphs[p]), 1,
                       [current_segment |-> <<>>, segments |-> segments], max_words),
            max_words)

\* lines 222-260
split_segments_joining_lines(text, max_words) ==
    scan_paragraphs(<<text>>, 1, <<>>, max_words)
split_segments(text, max_words) ==
    scan_paragraphs(split_on(text, NL, <<>>), 1, <<>>, max_words)

(***************************************************************************)
(* SubtitleProcessor._split_subtitle_entry: timing (lines 266-320)         *)
(***************************************************************************)
\* sum(list): 0 + l[1] + l[2] + ... left to right, each addition rounded
RECURSIVE fsum_from(_, _, _)
fsum_from(l, i, acc) ==
    IF i > Len(l) THEN acc ELSE fsum_from(l, i + 1, fadd(acc, l[i]))
fsum(l) == fsum_from(l, 1, R(0))

\* lines 271-288: proportional durations
scaled_durations_unscaled(segments, total_duration, wps) ==
    [k \in 1..Len(segments) |-> fdiv(R(Len(split(segments[k]))), wps)]
scaled_durations(segments, total_duration, wps) ==
    LET segment_word_counts == [k \in 1..Len(segments) |-> Len(split(segments[k]))]
        segment_durations ==
            [k \in 1..Len(segments) |-> fdiv(R(segment_word_counts[k]), wps)]
        total_ideal_duration == fsum(segment_durations)
    IN  IF RLess(R(0), total_ideal_duration)
        THEN LET scale_factor == fdiv(total_duration, total_ideal_duration)
             IN  [k \in 1..Len(segments) |-> fmul(segment_durations[k], scale_factor)]
        ELSE [k \in 1..Len(segments) |-> fdiv(total_duration, R(Len(segments)))]

\* line 291
min_duration_frames == fmul(MIN_SUBTITLE_DURATION, R(FPS))

\* lines 292-294
floored_durations_skipped(segment_durations) == segment_durations
floored_durations(segment_durations) ==
    [k \in 1..Len(segment_durations) |->
        IF RLess(segment_durations[k], min_duration_frames)
        THEN min_duration_frames ELSE segment_durations[k]]

\* lines 297-300
rescaled_durations(segment_durations, total_duration) ==
    LET adjusted_total == fsum(segment_durations)
    IN  IF RLess(total_duration, adjusted_total)
        THEN LET scale_factor == fdiv(total_duration, adjusted_total)
             IN  [k \in 1..Len(segment_durations) |->
                     fmul(segment_durations[k], scale_factor)]
        ELSE segment_durations

\* lines 303-313: contiguous layout from subtitle['start']
RECURSIVE layout(_, _, _, _, _, _)
layout(segments, segment_durations, i, current_start, speaker, result) ==
    IF i > Len(segments) THEN result
    ELSE layout(segments, segment_durations, i + 1,
                fadd(current_start, segment_durations[i]), speaker,
                Append(result, [start |-> current_start,
                                stop |-> fadd(current_start, segment_durations[i]),
                                text |-> segments[i],
                                speaker |-> speaker]))

\* lines 316-317: result[-1]['stop'] = subtitle['stop']
pin_last_stop_skipped(result, subtitle) == result
pin_last_stop(result, subtitle) ==
    IF result # <<>>
    THEN [result EXCEPT ![Len(result)].stop = subtitle.stop]
    ELSE result

_split_subtitle_entry(subtitle, max_words, wps) ==
    IF subtitle.text = <<>> THEN <<subtitle>>
    ELSE LET segments == split_segments(subtitle.text, max_words)
         IN  IF Len(segments) <= 1 THEN <<subtitle>>
             ELSE LET total_duration == fsub(subtitle.stop, subtitle.start)
                      segment_durations ==
                          rescaled_durations(
                              floored_durations(
                                  scaled_durations(segments, total_duration, wps)),
                              total_duration)
                  IN  pin_last_stop(
                          layout(segments, segment_durations, 1, subtitle.start,
                                 subtitle.speaker, <<>>),
                          subtitle)

(***************************************************************************)
(* SubtitleProcessor.format_time (lines 322-343)                           *)
(*                                                                         *)
(* The quotient frames / fps and the floor divisions and remainders on it  *)
(* are taken exactly.                                                      *)
(***************************************************************************)
RFloor(q) == q.n \div q.d
\* float // and % (the remainder has the sign of the divisor)
ffloordiv(a, b) == R(RFloor(RDiv(a, b)))
fmod(a, b) == RSub(a, RMul(b, ffloordiv(a, b)))
\* int(x): truncation towards zero
int_rounded(q) == RFloor(RAdd(q, [n |-> 1, d |-> 2]))
int(q) == IF q.n >= 0 THEN q.n \div q.d ELSE -((-q.n) \div q.d)

DigitChars == <<"0", "1", "2", "3", "4", "5", "6", "7", "8", "9">>
RECURSIVE digits(_)
digits(n) ==
    IF n < 10 THEN <<DigitChars[n + 1]>>
    ELSE Append(digits(n \div 10), DigitChars[(n % 10) + 1])
RECURSIVE zfill(_, _)
zfill(s, width) == IF Len(s) >= width THEN s ELSE zfill(<<"0">> \o s, width)
\* format(n, "0<width>"): zero padding between the sign and the digits
format_0(n, width) ==
    IF n < 0 THEN <<"-">> \o zfill(digits(-n), width - 1)
    ELSE zfill(digits(n), width)

format_time(frames, fps) ==
    LET seconds == RDiv(frames, R(fps))
        hours == int(ffloordiv(seconds, R(3600)))
        minutes == int(ffloordiv(fmod(seconds, R(3600)), R(60)))
        secs == int(fmod(seconds, R(60)))
        millis == int(RMul(fmod(seconds, R(1)), R(1000)))
    IN  format_0(hours, 2) \o <<":">> \o format_0(minutes, 2) \o <<":">>
        \o format_0(secs, 2) \o <<",">> \o format_0(millis, 3)

(***************************************************************************)
(* The input document as xml.etree.ElementTree presents it                 *)
(*                                                                         *)
(* An element is [present, text]: find() returning None is present =       *)
(* FALSE; a text of None and a text of "" are both <<>> (both are falsy).  *)
(* A document is [wellformed, duration, sounds]: whether ET.parse accepts  *)
(* it, the root's duration attribute and its sound elements in document    *)
(* order, each with its tts flag and its start, stop, ttsdata/text and     *)
(* ttsdata/voice elements.                                                 *)
(***************************************************************************)
Element(t) == [present |-> TRUE, text |-> t]
NoElement == [present |-> FALSE, text |-> <<>>]

\* float(s) for a decimal literal: optional sign, digits, optional fraction
IsDigit(c) == \E k \in 1..10 : DigitChars[k] = c
digit_value(c) == (CHOOSE k \in 1..10 : DigitChars[k] = c) - 1
RECURSIVE nat_of(_)
nat_of(s) ==
    IF s = <<>> THEN 0
    ELSE 10 * nat_of(SubSeq(s, 1, Len(s) - 1)) + digit_value(s[Len(s)])
RECURSIVE Pow10(_)
Pow10(k) == IF k = 0 THEN 1 ELSE 10 * Pow10(k - 1)

float(s) ==
    LET t == strip(s)
        signed == t # <<>> /\ Head(t) \in {"-", "+"}
        u == IF signed THEN Tail(t) ELSE t
        parts == split_on(u, ".", <<>>)
        ip == parts[1]
        fp == IF Len(parts) >= 2 THEN parts[2] ELSE <<>>
        ok == /\ Len(parts) <= 2
              /\ \A i \in 1..Len(ip) : IsDigit(ip[i])
              /\ \A i \in 1..Len(fp) : IsDigit(fp[i])
              /\ (ip # <<>> \/ fp # <<>>)
        mag == Norm(nat_of(ip) * Pow10(Len(fp)) + nat_of(fp), Pow10(Len(fp)))
    IN  IF ~ok THEN [ok |-> FALSE, value |-> R(0)]
        ELSE [ok |-> TRUE,
              value |-> Fl(IF signed /\ Head(t) = "-" THEN RNeg(mag) ELSE mag)]

\* str.capitalize(): first character upper-cased, the others lower-cased
LowerCase == <<"a", "b", "c", "d", "e", "f", "g", "h", "i", "j", "k", "l", "m",
               "n", "o", "p", "q", "r", "s", "t", "u", "v", "w", "x", "y", "z">>
UpperCase == <<"A", "B", "C", "D", "E", "F", "G", "H", "I", "J", "K", "L", "M",
               "N", "O", "P", "Q", "R", "S", "T", "U", "V", "W", "X", "Y", "Z">>
upper(c) ==
    IF \E k \in 1..26 : LowerCase[k] = c
    THEN UpperCase[CHOOSE k \in 1..26 : LowerCase[k] = c] ELSE c
lower(c) ==
    IF \E k \in 1..26 : UpperCase[k] = c
    THEN LowerCase[CHOOSE k \in 1..26 : UpperCase[k] = c] ELSE c
capitalize_first_only(s) ==
    [i \in 1..Len(s) |-> IF i = 1 THEN upper(s[i]) ELSE s[i]]
capitalize(s) ==
    [i \in 1..Len(s) |-> IF i = 1 THEN upper(s[i]) ELSE lower(s[i])]

Unknown == <<"U", "n", "k", "n", "o", "w", "n">>

(***************************************************************************)
(* SubtitleProcessor._convert_to_dict (lines 93-155)                       *)
(***************************************************************************)
\* lines 111-141: one sound element; [skip, cue]
convert_sound_defaulting(sound) ==
    LET start == IF sound.start.text # <<>> /\ float(sound.start.text).ok
                 THEN float(sound.start.text).value ELSE R(0)
        stop == IF sound.stop.text # <<>> /\ float(sound.stop.text).ok
                THEN float(sound.stop.text).value ELSE R(0)
        text == IF sound.text.present /\ sound.text.text # <<>>
                THEN sound.text.text ELSE <<>>
        speaker == IF sound.voice.present /\ sound.voice.text # <<>>
                   THEN sound.voice.text ELSE Unknown
        none == [start |-> R(0), stop |-> R(0), text |-> <<>>, speaker |-> <<>>]
    IN  IF ~sound.start.present \/ ~sound.stop.present
        THEN [skip |-> "missing start or stop", cue |-> none]
        ELSE IF strip(text) = <<>>
        THEN [skip |-> "empty", cue |-> none]
        ELSE [skip |-> "",
              cue |-> [start |-> start, stop |-> stop,
                       text |-> strip(text), speaker |-> capitalize(speaker)]]
convert_sound(sound) ==
    LET start == IF sound.start.text # <<>> THEN float(sound.start.text)
                 ELSE [ok |-> TRUE, value |-> R(0)]
        stop == IF sound.stop.text # <<>> THEN float(sound.stop.text)
                ELSE [ok |-> TRUE, value |-> R(0)]
        text == IF sound.text.present /\ sound.text.text # <<>>
                THEN sound.text.text ELSE <<>>
        speaker == IF sound.voice.present /\ sound.voice.text # <<>>
                   THEN sound.voice.text ELSE Unknown
        none == [start |-> R(0), stop |-> R(0), text |-> <<>>, speaker |-> <<>>]
    IN  IF ~sound.start.present \/ ~sound.stop.present
        THEN [skip |-> "missing start or stop", cue |-> none]
        ELSE IF ~start.ok \/ ~stop.ok
        THEN [skip |-> "ValueError", cue |-> none]
        ELSE IF strip(text) = <<>>
        THEN [skip |-> "empty", cue |-> none]
        ELSE [skip |-> "",
              cue |-> [start |-> start.value, stop |-> stop.value,
                       text |-> strip(text), speaker |-> capitalize(speaker)]]

\* lines 120, 130, 141: `continue` goes on with the next sound element
next_after_skip_aborting(sounds, i) == Len(sounds) + 1
next_after_skip(sounds, i) == i + 1

\* lines 110-141: the for loop over the selected sound elements
RECURSIVE convert_loop(_, _, _)
convert_loop(sounds, i, subtitles) ==
    IF i > Len(sounds) THEN subtitles
    ELSE LET c == convert_sound(sounds[i])
         IN  IF c.skip # ""
             THEN convert_loop(sounds, next_after_skip(sounds, i), subtitles)
             ELSE convert_loop(sounds, i + 1, Append(subtitles, c.cue))

\* line 104: root.findall(".//sound[@tts='1']")
RECURSIVE select_tts(_)
select_tts(sounds) ==
    IF sounds = <<>> THEN <<>>
    ELSE IF Head(sounds).tts THEN <<Head(sounds)>> \o select_tts(Tail(sounds))
    ELSE select_tts(Tail(sounds))

\* line 144: list.sort(key=start), stable
sort_insert(sorted, x) ==
    LET pos == Cardinality({i \in 1..Len(sorted) : RLeq(sorted[i].start, x.start)})
    IN  SubSeq(sorted, 1, pos) \o <<x>> \o SubSeq(sorted, pos + 1, Len(sorted))
RECURSIVE sort_by_start(_)
sort_by_start(l) ==
    IF l = <<>> THEN <<>>
    ELSE sort_insert(sort_by_start(SubSeq(l, 1, Len(l) - 1)), l[Len(l)])

\* lines 101-144: the extracted cues after the sort
extracted_sorted(root) == sort_by_start(convert_loop(select_tts(root.sounds), 1, <<>>))

\* lines 150-153
RECURSIVE split_all(_, _, _)
split_all(merged, max_words, wps) ==
    IF merged = <<>> THEN <<>>
    ELSE _split_subtitle_entry(Head(merged), max_words, wps)
         \o split_all(Tail(merged), max_words, wps)

_convert_to_dict(root, max_words, wps) ==
    IF select_tts(root.sounds) = <<>> THEN <<>>
    ELSE split_all(_merge_overlapping(extracted_sorted(root)), max_words, wps)

(***************************************************************************)
(* SubtitleProcessor.parse_xml (lines 48-91)                               *)
(***************************************************************************)
\* the exception parse_xml raises, "" when it returns
parse_xml_raises_parse_error_only(document) ==
    IF ~document.wellformed THEN "ParseError" ELSE ""
parse_xml_raises(document) ==
    IF ~document.wellformed THEN "ParseError"
    ELSE IF ~document.duration.present THEN "ValueError"
    ELSE IF ~float(document.duration.text).ok THEN "ValueError"
    ELSE ""

\* [raised, subtitles]
parse_xml(document, max_words, wps) ==
    IF parse_xml_raises(document) # ""
    THEN [raised |-> parse_xml_raises(document), subtitles |-> <<>>]
    ELSE [raised |-> "", subtitles |-> _convert_to_dict(document, max_words, wps)]

(***************************************************************************)
(* SubtitleProcessor.apply_offset (lines 345-358)                          *)
(***************************************************************************)
apply_offset_start_only(subtitles, offset) ==
    [i \in 1..Len(subtitles) |->
        [subtitles[i] EXCEPT !.start = fadd(@, offset)]]
apply_offset(subtitles, offset) ==
    [i \in 1..Len(subtitles) |->
        [subtitles[i] EXCEPT !.start = fadd(@, offset), !.stop = fadd(@, offset)]]

(***************************************************************************)
(* Console (src/modules/console.py)                                        *)
(***************************************************************************)
\* apply_speaker_replacements, lines 138-143; replace_map is a function from
\* old names to new names (the empty function for None)
apply_speaker_replacements_chained(subtitles, replace_map) ==
    [i \in 1..Len(subtitles) |->
        IF subtitles[i].speaker \in DOMAIN replace_map
        THEN [subtitles[i] EXCEPT !.speaker =
                 IF replace_map[@] \in DOMAIN replace_map
                 THEN replace_map[replace_map[@]] ELSE replace_map[@]]
        ELSE subtitles[i]]
apply_speaker_replacements(subtitles, replace_map) ==
    [i \in 1..Len(subtitles) |->
        IF subtitles[i].speaker \in DOMAIN replace_map
        THEN [subtitles[i] EXCEPT !.speaker = replace_map[subtitles[i].speaker]]
        ELSE subtitles[i]]

\* lines 136-143: replacement_count, a dict from the old names met to the
\* number of cues renamed
RECURSIVE count_loop(_, _, _, _)
count_loop(subtitles, replace_map, i, counts) ==
    IF i > Len(subtitles) THEN counts
    ELSE IF subtitles[i].speaker \in DOMAIN replace_map
    THEN count_loop(subtitles, replace_map, i + 1,
            IF subtitles[i].speaker \in DOMAIN counts
            THEN [counts EXCEPT ![subtitles[i].speaker] = @ + 1]
            ELSE counts @@ (subtitles[i].speaker :> 1))
    ELSE count_loop(subtitles, replace_map, i + 1, counts)
reported_counts(subtitles, replace_map) == count_loop(subtitles, replace_map, 1, <<>>)

\* lines 88-93 and 108-109: the offset when one is given
offset_if_given(subtitles, offset) ==
    IF offset # R(0) THEN apply_offset(subtitles, offset) ELSE subtitles

\* save_srt, lines 187-194: one block per cue
save_srt(subtitles) ==
    [i \in 1..Len(subtitles) |->
        [index |-> digits(i),
         times |-> format_time(subtitles[i].start, FPS)
                   \o <<" ", "-", "-", ">", " ">>
                   \o format_time(subtitles[i].stop, FPS),
         line |-> subtitles[i].speaker \o <<":", " ">> \o subtitles[i].text]]

\* lines 88-99 and 108-111: offset, then speaker replacements
offset_and_replace_without_offset(subtitles, offset, replace_map) ==
    IF replace_map # <<>> THEN apply_speaker_replacements(subtitles, replace_map)
    ELSE subtitles
offset_and_replace(subtitles, offset, replace_map) ==
    LET shifted == IF offset # R(0) THEN apply_offset(subtitles, offset)
                   ELSE subtitles
    IN  IF replace_map # <<>> THEN apply_speaker_replacements(shifted, replace_map)
        ELSE shifted

(***************************************************************************)
(* MainWindow (src/modules/window.py)                                      *)
(***************************************************************************)
\* offset_beginning, lines 208-232: [subtitles, current_offset, dialog]
offset_beginning_absolute(subtitles, current, offset) ==
    IF subtitles = <<>>
    THEN [subtitles |-> subtitles, current_offset |-> current, dialog |-> "No Subtitles"]
    ELSE [subtitles |-> apply_offset(subtitles, R(offset)),
          current_offset |-> R(offset), dialog |-> ""]
offset_beginning(subtitles, current, offset) ==
    IF subtitles = <<>>
    THEN [subtitles |-> subtitles, current_offset |-> current, dialog |-> "No Subtitles"]
    ELSE [subtitles |-> apply_offset(subtitles, fsub(R(offset), current)),
          current_offset |-> R(offset), dialog |-> ""]

\* lines 107-109: the reset after a load; setValue(0) emits valueChanged(0),
\* which runs offset_beginning(0), when the spin box held another value
reset_offset(subtitles, spin) ==
    IF spin # 0 THEN offset_beginning(subtitles, R(0), 0).subtitles ELSE subtitles

(***************************************************************************)
(* Cue lists: predicates used by the properties                            *)
(***************************************************************************)
SortedByStart(l) == \A i \in 1..(Len(l) - 1) : RLeq(l[i].start, l[i + 1].start)
NoOverlap(l) == \A i \in 1..(Len(l) - 1) : RLeq(l[i].stop, l[i + 1].start)

(***************************************************************************)
(* SpecMerge: _merge_overlapping run on every start-sorted list of cues    *)
(***************************************************************************)
Hi == <<"H", "i">>
There == <<"t", "h", "e", "r", "e">>
MergeSpans == {<<0, 50>>, <<30, 80>>, <<30, 20>>, <<50, 50>>, <<50, 80>>, <<80, 90>>}
MergeCues ==
    {[start |-> R(sp[1]), stop |-> R(sp[2]), text |-> t, speaker |-> s] :
        sp \in MergeSpans, t \in {Hi, There}, s \in {<<"A">>, <<"B">>}}

IdleMerge ==
    /\ mo_subtitles = <<>>
    /\ mo_i = 1
    /\ merged_subtitles = <<>>
    /\ mo_pc = "idle"

\* SubtitleProcessor.__init__ with its default arguments
DefaultProcessor ==
    /\ max_words_per_line = DEFAULT_MAX_WORDS_PER_LINE
    /\ words_per_second = DEFAULT_WORDS_PER_SECOND

IdleSplit ==
    /\ sp_subtitle = [start |-> R(0), stop |-> R(0), text |-> <<>>, speaker |-> <<>>]
    /\ sp_result = <<>>
    /\ sp_pc = "idle"

NoFile == [written |-> FALSE, blocks |-> <<>>]
NoDocument == [wellformed |-> FALSE, duration |-> NoElement, sounds |-> <<>>]

IdleList ==
    /\ xml_file = NoDocument
    /\ self_subtitles = <<>>

IdleOffset ==
    /\ ao_original = <<>>
    /\ ao_offsets = <<>>

IdleConsole ==
    /\ params = [file |-> "none", offset |-> R(0), replace_speakers |-> <<>>,
                 max_words |-> 0]
    /\ run_pc = "idle"
    /\ srt_file = NoFile
    /\ message = ""
    /\ replacement_count = <<>>

IdleWindow ==
    /\ mw_file = NoDocument
    /\ mw_subtitles = <<>>
    /\ current_offset = R(0)
    /\ spin_value = 0
    /\ mw_dialog = ""
    /\ mw_loads = 0
    /\ mw_entered = <<>>

IdleFormat ==
    /\ ft_frames = 0
    /\ ft_result = <<>>
    /\ ft_pc = "idle"

InitMerge ==
    /\ \E len \in 0..MaxMergeLen :
         mo_subtitles \in {l \in [1..len -> MergeCues] : SortedByStart(l)}
    /\ mo_i = 1
    /\ merged_subtitles = <<>>
    /\ mo_pc = "loop"
    /\ DefaultProcessor /\ IdleSplit /\ IdleFormat /\ IdleList /\ IdleOffset
    /\ IdleConsole /\ IdleWindow

\* one iteration taking the merge branch (lines 178-195)
MergeOverlapping ==
    /\ mo_pc = "loop" /\ mo_i <= Len(mo_subtitles)
    /\ merged_subtitles # <<>>
    /\ overlaps(merged_subtitles[Len(merged_subtitles)], mo_subtitles[mo_i])
    /\ merged_subtitles' = merge_iteration(merged_subtitles, mo_subtitles[mo_i])
    /\ mo_i' = mo_i + 1
    /\ UNCHANGED <<mo_subtitles, mo_pc>>
    /\ UNCHANGED notMerge

\* one iteration taking the append branch (lines 196-198)
MergeAppend ==
    /\ mo_pc = "loop" /\ mo_i <= Len(mo_subtitles)
    /\ ~(/\ merged_subtitles # <<>>
         /\ overlaps(merged_subtitles[Len(merged_subtitles)], mo_subtitles[mo_i]))
    /\ merged_subtitles' = merge_iteration(merged_subtitles, mo_subtitles[mo_i])
    /\ mo_i' = mo_i + 1
    /\ UNCHANGED <<mo_subtitles, mo_pc>>
    /\ UNCHANGED notMerge

\* lines 170-171 and 200
MergeReturn ==
    /\ mo_pc = "loop" /\ mo_i > Len(mo_subtitles)
    /\ mo_pc' = "returned"
    /\ UNCHANGED <<mo_subtitles, mo_i, merged_subtitles>>
    /\ UNCHANGED notMerge

NextMerge == MergeOverlapping \/ MergeAppend \/ MergeReturn

SpecMerge == InitMerge /\ [][NextMerge]_vars

\* the loop and the function agree (a sanity property of the model)
MergeLoopIsFunction ==
    mo_pc = "returned" => merged_subtitles = _merge_overlapping(mo_subtitles)

(***************************************************************************)
(* SpecSplit: _split_subtitle_entry called on one cue                      *)
(***************************************************************************)
RECURSIVE join(_, _)
join(sep, parts) ==
    IF parts = <<>> THEN <<>>
    ELSE IF Len(parts) = 1 THEN parts[1]
    ELSE parts[1] \o sep \o join(sep, Tail(parts))

\* cue texts: the words a, b, c, ... in this order, each with or without a
\* full stop, separated by a space or by a line break
Letters == <<"a", "b", "c", "d", "e", "f", "g", "h">>
TextOf(k, dots, seps) ==
    LET RECURSIVE from(_)
        from(i) ==
            LET word == IF dots[i] THEN <<Letters[i], ".">> ELSE <<Letters[i]>>
            IN  IF i = k THEN word ELSE word \o <<seps[i]>> \o from(i + 1)
    IN  from(1)
GeneratedTexts ==
    UNION {{TextOf(k, dots, seps) :
               dots \in [1..k -> BOOLEAN], seps \in [1..(k - 1) -> Whitespace]} :
           k \in 1..MaxTextWords}
OtherTexts ==
    {<<"d", "?", " ", "e", ":", " ", "f", "!", " ", "g">>,
     <<"a", " ", " ", "b", " ", "a", " ", "b", " ", "a">>,
     <<"a", NL, NL, "b">>,
     <<"a", ".", "b", " ", "c">>}
SplitTexts == GeneratedTexts \cup OtherTexts
\* 22 words, without a sentence end and with one after the 14th word
Words22(dot) ==
    join(<<" ">>, [i \in 1..22 |->
                      IF i = dot THEN <<Letters[((i - 1) % 8) + 1], ".">>
                      ELSE <<Letters[((i - 1) % 8) + 1]>>])
LongTexts == {Words22(0), Words22(14)}

SplitSpans == {<<0, 50>>, <<0, 36>>, <<0, 100>>, <<10, 10>>, <<30, 20>>, <<5, 12>>}
SplitRates == {DEFAULT_WORDS_PER_SECOND, R(3)}

InitSplit ==
    /\ \/ /\ \E sp \in SplitSpans, t \in SplitTexts :
               sp_subtitle = [start |-> R(sp[1]), stop |-> R(sp[2]), text |-> t,
                              speaker |-> <<"A">>]
          /\ max_words_per_line \in 1..MaxCap
       \/ /\ \E sp \in SplitSpans, t \in LongTexts :
               sp_subtitle = [start |-> R(sp[1]), stop |-> R(sp[2]), text |-> t,
                              speaker |-> <<"A">>]
          /\ max_words_per_line = DEFAULT_MAX_WORDS_PER_LINE
    /\ words_per_second \in SplitRates
    /\ sp_result = <<>>
    /\ sp_pc = "call"
    /\ IdleMerge /\ IdleFormat /\ IdleList /\ IdleOffset /\ IdleConsole /\ IdleWindow

SplitEntry ==
    /\ sp_pc = "call"
    /\ sp_result' = _split_subtitle_entry(sp_subtitle, max_words_per_line,
                                          words_per_second)
    /\ sp_pc' = "returned"
    /\ UNCHANGED <<sp_subtitle, max_words_per_line, words_per_second>>
    /\ UNCHANGED notSplit

NextSplit == SplitEntry

SpecSplit == InitSplit /\ [][NextSplit]_vars

(***************************************************************************)
(* SpecFormat: format_time called on a non-negative whole frame count      *)
(***************************************************************************)
FramesPerHour == 3600 * FPS
LongFrameCounts ==
    {h * FramesPerHour + m * 60 * FPS + s * FPS + r :
        h \in {1, 23, 24, 25, 99, 100}, m \in {0, 59}, s \in {0, 59},
        r \in {0, 1, 23}}

InitFormat ==
    /\ ft_frames \in (0..MaxFrames) \cup LongFrameCounts
    /\ ft_result = <<>>
    /\ ft_pc = "call"
    /\ DefaultProcessor /\ IdleMerge /\ IdleSplit /\ IdleList /\ IdleOffset
    /\ IdleConsole /\ IdleWindow

FormatTime ==
    /\ ft_pc = "call"
    /\ ft_result' = format_time(R(ft_frames), FPS)
    /\ ft_pc' = "returned"
    /\ UNCHANGED ft_frames
    /\ UNCHANGED notFormat

NextFormat == FormatTime

SpecFormat == InitFormat /\ [][NextFormat]_vars

(***************************************************************************)
(* Generated documents                                                     *)
(***************************************************************************)
Sound(tts, start, stop, text, voice) ==
    [tts |-> tts, start |-> start, stop |-> stop, text |-> text, voice |-> voice]

Num(s) == Element(s)
ABC == <<"a", ".", " ", "b", " ", "c">>
VoiceA == Element(<<"a">>)
VoiceB == Element(<<"b">>)
VoiceJO == Element(<<"j", "O">>)

Sounds ==
    {Sound(TRUE, Num(<<"0">>), Num(<<"5", "0">>), Element(ABC), VoiceA),
     Sound(TRUE, Num(<<"3", "0">>), Num(<<"8", "0">>), Element(Hi), VoiceB),
     Sound(TRUE, Num(<<"4", "0">>), Num(<<"9", "0">>), Element(There), VoiceA),
     \* stop before start
     Sound(TRUE, Num(<<"3", "0">>), Num(<<"2", "0">>), Element(ABC), VoiceA),
     \* <stop/> without text
     Sound(TRUE, Num(<<"1", "0", "0">>), Element(<<>>), Element(Hi), VoiceB),
     \* no <stop> element, no <start> element
     Sound(TRUE, Num(<<"0">>), NoElement, Element(Hi), VoiceA),
     Sound(TRUE, NoElement, Num(<<"5", "0">>), Element(ABC), VoiceB),
     \* a start that is no number
     Sound(TRUE, Num(<<"x">>), Num(<<"5", "0">>), Element(Hi), VoiceA),
     \* blank text, no text element
     Sound(TRUE, Num(<<"0">>), Num(<<"5", "0">>), Element(<<" ">>), VoiceA),
     Sound(TRUE, Num(<<"0">>), Num(<<"5", "0">>), NoElement, VoiceA),
     \* no voice element
     Sound(TRUE, Num(<<"3", "0">>), Num(<<"8", "0">>), Element(ABC), NoElement),
     \* a voice label with an upper-case letter after the first
     Sound(TRUE, Num(<<"6", "0">>), Num(<<"9", "0">>), Element(Hi), VoiceJO),
     \* not flagged tts='1'
     Sound(FALSE, Num(<<"0">>), Num(<<"5", "0">>), Element(Hi), VoiceA)}

GoodDocuments ==
    {[wellformed |-> TRUE, duration |-> Element(<<"9", "0">>), sounds |-> ss] :
        ss \in UNION {[1..k -> Sounds] : k \in 0..MaxSounds}}

\* documents parse_xml rejects, each holding one valid sound
ValidSound == Sound(TRUE, Num(<<"0">>), Num(<<"5", "0">>), Element(ABC), VoiceA)
BadDocuments ==
    {[wellformed |-> FALSE, duration |-> Element(<<"9", "0">>), sounds |-> <<ValidSound>>],
     [wellformed |-> TRUE, duration |-> NoElement, sounds |-> <<ValidSound>>],
     [wellformed |-> TRUE, duration |-> Element(<<>>), sounds |-> <<ValidSound>>],
     [wellformed |-> TRUE, duration |-> Element(<<"l", "o", "n", "g">>),
      sounds |-> <<ValidSound>>]}

Documents == GoodDocuments \cup BadDocuments

(***************************************************************************)
(* SpecOffset: apply_offset called on the list parse_xml returned          *)
(***************************************************************************)
Offsets == {R(5), R(-5), R(100), R(-100)}

InitOffset ==
    /\ xml_file \in GoodDocuments
    /\ DefaultProcessor
    /\ self_subtitles =
         parse_xml(xml_file, max_words_per_line, words_per_second).subtitles
    /\ self_subtitles # <<>>
    /\ ao_original = self_subtitles
    /\ ao_offsets = <<>>
    /\ IdleMerge /\ IdleSplit /\ IdleFormat /\ IdleConsole /\ IdleWindow

ApplyOffset ==
    /\ Len(ao_offsets) < MaxOffsetCalls
    /\ \E offset \in Offsets :
         /\ self_subtitles' = apply_offset(self_subtitles, offset)
         /\ ao_offsets' = Append(ao_offsets, offset)
    /\ UNCHANGED <<xml_file, ao_original>>
    /\ UNCHANGED notOffset

NextOffset == ApplyOffset

SpecOffset == InitOffset /\ [][NextOffset]_vars

(***************************************************************************)
(* Spec: Console.run (console.py lines 36-127), one stage per step         *)
(***************************************************************************)
ConsoleOffsets == {R(0), R(-30), R(100)}
ReplaceMaps == {<<>>, (<<"A">> :> <<"B">>) @@ (<<"B">> :> <<"C">>)}
\* 0 stands for an absent --max-words, which is as falsy as 0
ConsoleMaxWords == {0, 1, DEFAULT_MAX_WORDS_PER_LINE}

Init ==
    /\ \/ /\ params \in [file : {"ok"}, offset : ConsoleOffsets,
                         replace_speakers : ReplaceMaps, max_words : ConsoleMaxWords]
          /\ xml_file \in Documents
       \/ /\ params \in [file : {"none", "missing", "not_xml"}, offset : {R(0)},
                         replace_speakers : {<<>>}, max_words : {0}]
          /\ xml_file = NoDocument
    /\ self_subtitles = <<>>
    /\ DefaultProcessor
    /\ run_pc = "start"
    /\ srt_file = NoFile
    /\ message = ""
    /\ replacement_count = <<>>
    /\ IdleMerge /\ IdleSplit /\ IdleFormat /\ IdleOffset /\ IdleWindow

\* lines 43-61: the input file is not given, not there or not .xml
RunRejectsFile ==
    /\ run_pc = "start"
    /\ params.file # "ok"
    /\ message' = (CASE params.file = "none" -> "Error: No input file specified."
                     [] params.file = "missing" -> "Error: Input file not found"
                     [] OTHER -> "Error: Input file must be an XML file")
    /\ run_pc' = "done"
    /\ UNCHANGED <<params, srt_file, replacement_count, processorVars, listVars>>
    /\ UNCHANGED notConsole

\* lines 71-86: parse_xml, its result and its exceptions
RunLoad_without_empty_check ==
    /\ run_pc = "start"
    /\ params.file = "ok"
    /\ LET r == parse_xml(xml_file, max_words_per_line, words_per_second)
       IN  IF r.raised # ""
           THEN /\ message' = "Error: Failed to parse XML file"
                /\ run_pc' = "done"
                /\ UNCHANGED self_subtitles
           ELSE /\ self_subtitles' = r.subtitles
                /\ message' = "Successfully loaded"
                /\ run_pc' = "loaded"
    /\ UNCHANGED <<params, srt_file, replacement_count, processorVars, xml_file>>
    /\ UNCHANGED notConsole
RunLoad ==
    /\ run_pc = "start"
    /\ params.file = "ok"
    /\ LET r == parse_xml(xml_file, max_words_per_line, words_per_second)
       IN  IF r.raised # ""
           THEN /\ message' = "Error: Failed to parse XML file"
                /\ run_pc' = "done"
                /\ UNCHANGED self_subtitles
           ELSE /\ self_subtitles' = r.subtitles
                /\ IF r.subtitles = <<>>
                   THEN /\ message' = "Warning: No subtitles found in the XML file."
                        /\ run_pc' = "done"
                   ELSE /\ message' = "Successfully loaded"
                        /\ run_pc' = "loaded"
    /\ UNCHANGED <<params, srt_file, replacement_count, processorVars, xml_file>>
    /\ UNCHANGED notConsole

\* lines 88-93
RunOffset ==
    /\ run_pc = "loaded"
    /\ self_subtitles' =
         (IF params.offset # R(0) THEN apply_offset(self_subtitles, params.offset)
          ELSE self_subtitles)
    /\ run_pc' = "offset"
    /\ UNCHANGED <<params, srt_file, message, replacement_count, processorVars, xml_file>>
    /\ UNCHANGED notConsole

\* lines 95-99
RunReplace ==
    /\ run_pc = "offset"
    /\ self_subtitles' =
         (IF params.replace_speakers # <<>>
          THEN apply_speaker_replacements(self_subtitles, params.replace_speakers)
          ELSE self_subtitles)
    /\ replacement_count' =
         (IF params.replace_speakers # <<>>
          THEN reported_counts(self_subtitles, params.replace_speakers)
          ELSE replacement_count)
    /\ run_pc' = "replaced"
    /\ UNCHANGED <<params, srt_file, message, processorVars, xml_file>>
    /\ UNCHANGED notConsole

\* lines 101-111: re-parse with the requested word limit
RunMaxWords ==
    /\ run_pc = "replaced"
    /\ IF params.max_words # 0 /\ params.max_words # max_words_per_line
       THEN LET r == parse_xml(xml_file, params.max_words, words_per_second)
            IN  /\ max_words_per_line' = params.max_words
                /\ IF r.raised # ""
                   THEN /\ run_pc' = "raised"
                        /\ UNCHANGED <<self_subtitles, replacement_count>>
                   ELSE /\ self_subtitles' =
                             offset_and_replace(r.subtitles, params.offset,
                                                params.replace_speakers)
                        /\ replacement_count' =
                             (IF params.replace_speakers # <<>>
                              THEN reported_counts(
                                       offset_if_given(r.subtitles, params.offset),
                                       params.replace_speakers)
                              ELSE replacement_count)
                        /\ run_pc' = "reprocessed"
       ELSE /\ run_pc' = "reprocessed"
            /\ UNCHANGED <<self_subtitles, max_words_per_line, replacement_count>>
    /\ UNCHANGED <<params, srt_file, message, words_per_second, xml_file>>
    /\ UNCHANGED notConsole

\* lines 117-127: save_srt; the file system lets open() fail (written = -1),
\* lets a write fail after `written` blocks, or lets all blocks through
RunSave ==
    /\ run_pc = "reprocessed"
    /\ \E written \in -1..Len(self_subtitles) :
         /\ srt_file' =
               (IF written = -1 THEN srt_file
                ELSE [written |-> TRUE,
                      blocks |-> SubSeq(save_srt(self_subtitles), 1, written)])
         /\ message' =
               (IF written = Len(self_subtitles) THEN "Successfully saved"
                ELSE "Error: Failed to save SRT file")
    /\ run_pc' = "done"
    /\ UNCHANGED <<params, replacement_count, processorVars, listVars>>
    /\ UNCHANGED notConsole

Next == RunRejectsFile \/ RunLoad \/ RunOffset \/ RunReplace \/ RunMaxWords \/ RunSave

Spec == Init /\ [][Next]_vars

(***************************************************************************)
(* SpecWindow: MainWindow.open_file and the offset spin box                *)
(***************************************************************************)
HiSound == Sound(TRUE, Num(<<"3", "0">>), Num(<<"8", "0">>), Element(Hi), VoiceB)
Document(sounds) ==
    [wellformed |-> TRUE, duration |-> Element(<<"9", "0">>), sounds |-> sounds]
WindowDocuments ==
    {Document(<<ValidSound>>), Document(<<HiSound>>), Document(<<HiSound, ValidSound>>),
     Document(<<>>),
     [wellformed |-> FALSE, duration |-> Element(<<"9", "0">>), sounds |-> <<ValidSound>>]}
SpinValues == {0, 5, 50, -5}

InitWindow ==
    /\ IdleWindow
    /\ DefaultProcessor
    /\ IdleMerge /\ IdleSplit /\ IdleFormat /\ IdleList /\ IdleOffset /\ IdleConsole

\* open_file, lines 66-74: the file dialog is cancelled
OpenCancelled ==
    /\ mw_loads < MaxLoads
    /\ mw_loads' = mw_loads + 1
    /\ mw_dialog' = "No File Selected"
    /\ UNCHANGED <<mw_file, mw_subtitles, current_offset, spin_value, mw_entered>>
    /\ UNCHANGED notWindow

\* open_file and parse_xml, lines 76-133: a file is selected
OpenFile ==
    /\ mw_loads < MaxLoads
    /\ mw_loads' = mw_loads + 1
    /\ \E document \in WindowDocuments :
         LET r == parse_xml(document, max_words_per_line, words_per_second)
         IN  IF r.raised # ""
             THEN /\ mw_dialog' = "Error"
                  /\ UNCHANGED <<mw_file, mw_subtitles, current_offset, spin_value,
                                 mw_entered>>
             ELSE IF r.subtitles = <<>>
             THEN /\ mw_subtitles' = <<>>
                  /\ mw_file' = document
                  /\ mw_dialog' = "No Subtitles Found"
                  /\ UNCHANGED <<current_offset, spin_value, mw_entered>>
             ELSE /\ mw_subtitles' = reset_offset(r.subtitles, spin_value)
                  /\ mw_file' = document
                  /\ current_offset' = R(0)
                  /\ spin_value' = 0
                  /\ mw_entered' = <<>>
                  /\ mw_dialog' = ""
    /\ UNCHANGED notWindow

\* the user changes the spin box: valueChanged runs offset_beginning
ChangeOffset ==
    /\ Len(mw_entered) < MaxOffsetChanges
    /\ \E offset \in SpinValues \ {spin_value} :
         LET w == offset_beginning(mw_subtitles, current_offset, offset)
         IN  /\ spin_value' = offset
             /\ mw_subtitles' = w.subtitles
             /\ current_offset' = w.current_offset
             /\ mw_dialog' = w.dialog
             /\ mw_entered' =
                   (IF mw_subtitles # <<>> THEN Append(mw_entered, offset)
                    ELSE mw_entered)
    /\ UNCHANGED <<mw_file, mw_loads>>
    /\ UNCHANGED notWindow

NextWindow == OpenCancelled \/ OpenFile \/ ChangeOffset

SpecWindow == InitWindow /\ [][NextWindow]_vars

(***************************************************************************)
(* Properties of the overlap merger (SpecMerge)                            *)
(***************************************************************************)
NoCueStartsBeforePreviousStop(l) ==
    \A i \in 1..(Len(l) - 1) : ~RLess(l[i + 1].start, l[i].stop)

\* C1: for every start-sorted cue list, the list _merge_overlapping returns
\* has stop[i] <= start[i+1] for every adjacent pair and is again in
\* ascending start order.
C1_MergedNoOverlapSorted ==
    mo_pc = "returned" =>
        NoOverlap(merged_subtitles) /\ SortedByStart(merged_subtitles)

\* a run in which cues were merged and more than one cue was returned
C1_Witness ==
    /\ mo_pc = "returned"
    /\ Len(merged_subtitles) >= 2
    /\ Len(mo_subtitles) > Len(merged_subtitles)

\* C2: the merger is idempotent: merging its own result changes nothing, and
\* a start-sorted list in which no cue starts strictly before the previous
\* cue's stop is returned as it is (same cues, order and field values).
C2_MergeIdempotent ==
    mo_pc = "returned" =>
        /\ _merge_overlapping(merged_subtitles) = merged_subtitles
        /\ (NoCueStartsBeforePreviousStop(mo_subtitles) =>
                merged_subtitles = mo_subtitles)

\* a returned overlap-free list of two or more cues, two of which touch
C2_Witness ==
    /\ mo_pc = "returned"
    /\ Len(mo_subtitles) >= 2
    /\ NoCueStartsBeforePreviousStop(mo_subtitles)
    /\ \E i \in 1..(Len(mo_subtitles) - 1) :
          mo_subtitles[i].stop = mo_subtitles[i + 1].start
    /\ merged_subtitles = mo_subtitles

C3_First == [start |-> R(0), stop |-> R(50), text |-> Hi, speaker |-> <<"A">>]
C3_Second == [start |-> R(30), stop |-> R(80), text |-> There, speaker |-> <<"B">>]
C3_Merged ==
    [start |-> R(0), stop |-> R(80),
     text |-> <<"H", "i", "\n", "t", "h", "e", "r", "e">>,
     speaker |-> <<"A", "/", "B">>]

\* C3: an iteration whose incoming cue starts strictly before the
\* accumulator's stop leaves the list length, the earlier cues and the
\* accumulator's start unchanged, sets its stop to the larger of the two
\* stops, its text to accumulator text + line break + incoming text, and its
\* speaker to "accumulator/incoming" when the speakers differ (unchanged when
\* equal); {0,50,"Hi","A"} and {30,80,"there","B"} merge to the single cue
\* {0,80,"A/B","Hi\nthere"}.
C3_MergeStep ==
    /\ [][(/\ mo_pc = "loop" /\ mo_i <= Len(mo_subtitles)
           /\ merged_subtitles # <<>>
           /\ RLess(mo_subtitles[mo_i].start,
                    merged_subtitles[Len(merged_subtitles)].stop))
          => LET k == Len(merged_subtitles)
                 acc == merged_subtitles[k]
                 inc == mo_subtitles[mo_i]
             IN  /\ Len(merged_subtitles') = k
                 /\ \A j \in 1..(k - 1) : merged_subtitles'[j] = merged_subtitles[j]
                 /\ merged_subtitles'[k].start = acc.start
                 /\ merged_subtitles'[k].stop =
                        (IF RLess(acc.stop, inc.stop) THEN inc.stop ELSE acc.stop)
                 /\ merged_subtitles'[k].text = acc.text \o <<"\n">> \o inc.text
                 /\ merged_subtitles'[k].speaker =
                        (IF acc.speaker = inc.speaker THEN acc.speaker
                         ELSE acc.speaker \o <<"/">> \o inc.speaker)]_vars
    /\ [](mo_pc = "returned" /\ mo_subtitles = <<C3_First, C3_Second>> =>
            merged_subtitles = <<C3_Merged>>)

\* the two cues of the scenario merged into one
C3_Witness ==
    /\ mo_pc = "returned"
    /\ mo_subtitles = <<C3_First, C3_Second>>
    /\ merged_subtitles = <<C3_Merged>>

(***************************************************************************)
(* Properties of the segment splitter (SpecSplit)                          *)
(***************************************************************************)
\* the sum of stop - start over the cues of l, in exact arithmetic
RECURSIVE SumOfDurations(_, _)
SumOfDurations(l, i) ==
    IF i > Len(l) THEN R(0)
    ELSE RAdd(RSub(l[i].stop, l[i].start), SumOfDurations(l, i + 1))

\* C4: when a cue is expanded into two or more sub-cues, the first sub-cue
\* starts at the source start, every sub-cue starts at the previous sub-cue's
\* stop, the last sub-cue stops at the source stop, and the durations
\* (stop - start, summed exactly) add up to the source duration.
C4_SplitCoversSpan ==
    (sp_pc = "returned" /\ Len(sp_result) >= 2) =>
        /\ sp_result[1].start = sp_subtitle.start
        /\ \A i \in 1..(Len(sp_result) - 1) :
              sp_result[i + 1].start = sp_result[i].stop
        /\ sp_result[Len(sp_result)].stop = sp_subtitle.stop
        /\ SumOfDurations(sp_result, 1) = RSub(sp_subtitle.stop, sp_subtitle.start)

\* a cue of positive span expanded into three or more sub-cues with
\* fractional boundaries
C4_Witness ==
    /\ sp_pc = "returned"
    /\ Len(sp_result) >= 3
    /\ RLess(sp_subtitle.start, sp_subtitle.stop)
    /\ \E i \in 1..Len(sp_result) : sp_result[i].stop.d > 1

\* C5: for every max_words_per_line >= 1, each segment of a cue expanded into
\* two or more sub-cues holds at most max_words_per_line words.
C5_SegmentsWithinWordCap ==
    (sp_pc = "returned" /\ Len(sp_result) >= 2) =>
        \A i \in 1..Len(sp_result) :
            Len(split(sp_result[i].text)) <= max_words_per_line

\* a line of more words than the cap, cut into segments one of which is full
C5_Witness ==
    /\ sp_pc = "returned"
    /\ Len(sp_result) >= 2
    /\ max_words_per_line >= 2
    /\ Len(split(sp_subtitle.text)) > max_words_per_line
    /\ \E i \in 1..Len(sp_result) :
          Len(split(sp_result[i].text)) = max_words_per_line

(***************************************************************************)
(* Properties of the timestamp formatter (SpecFormat)                      *)
(***************************************************************************)
DigitValue(c) ==
    CASE c = "0" -> 0 [] c = "1" -> 1 [] c = "2" -> 2 [] c = "3" -> 3
      [] c = "4" -> 4 [] c = "5" -> 5 [] c = "6" -> 6 [] c = "7" -> 7
      [] c = "8" -> 8 [] c = "9" -> 9 [] OTHER -> -1
IsDigits(s) == \A i \in 1..Len(s) : DigitValue(s[i]) >= 0
RECURSIVE NumberOf(_)
NumberOf(s) ==
    IF s = <<>> THEN 0
    ELSE 10 * NumberOf(SubSeq(s, 1, Len(s) - 1)) + DigitValue(s[Len(s)])

\* the string is H..H:MM:SS,mmm with two or more hour digits and these values
IsTimestamp(s, hh, mm, ss, mmm) ==
    LET n == Len(s)
    IN  /\ n >= 12
        /\ s[n - 3] = "," /\ s[n - 6] = ":" /\ s[n - 9] = ":"
        /\ IsDigits(SubSeq(s, 1, n - 10)) /\ NumberOf(SubSeq(s, 1, n - 10)) = hh
        /\ IsDigits(SubSeq(s, n - 8, n - 7)) /\ NumberOf(SubSeq(s, n - 8, n - 7)) = mm
        /\ IsDigits(SubSeq(s, n - 5, n - 4)) /\ NumberOf(SubSeq(s, n - 5, n - 4)) = ss
        /\ IsDigits(SubSeq(s, n - 2, n)) /\ NumberOf(SubSeq(s, n - 2, n)) = mmm
        /\ (hh >= 10 => s[1] # "0")

\* C9: for a non-negative whole frame count f at 24 fps, format_time returns
\* the zero-padded HH:MM:SS,mmm of s = f div 24 seconds: HH = s div 3600
\* (no rollover at 24 hours), MM = (s mod 3600) div 60, SS = s mod 60 and
\* mmm = (f mod 24) * 1000 div 24, truncated; 0 gives 00:00:00,000, 24 gives
\* 00:00:01,000 and 24*90 gives 00:01:30,000.
C9_FormatTime ==
    ft_pc = "returned" =>
        LET s == ft_frames \div 24
        IN  /\ IsTimestamp(ft_result, s \div 3600, (s % 3600) \div 60, s % 60,
                           ((ft_frames % 24) * 1000) \div 24)
            /\ (ft_frames = 0 =>
                  ft_result = <<"0","0",":","0","0",":","0","0",",","0","0","0">>)
            /\ (ft_frames = 24 =>
                  ft_result = <<"0","0",":","0","0",":","0","1",",","0","0","0">>)
            /\ (ft_frames = 24 * 90 =>
                  ft_result = <<"0","0",":","0","1",":","3","0",",","0","0","0">>)

\* 25 hours, 59 minutes, 59 seconds and 23 frames: 25:59:59,958
C9_Witness ==
    /\ ft_pc = "returned"
    /\ ft_frames = 25 * FramesPerHour + 59 * 60 * FPS + 59 * FPS + 23
    /\ ft_result = <<"2","5",":","5","9",":","5","9",",","9","5","8">>

(***************************************************************************)
(* Properties of the pipeline in Console.run (Spec)                        *)
(***************************************************************************)
DocumentAccepted == params.file = "ok" /\ parse_xml_raises(xml_file) = ""
Loaded == run_pc \in {"loaded", "offset", "replaced", "reprocessed"}

\* C6: the cue list is in non-decreasing start order after every stage: after
\* the extractor's sort, after _merge_overlapping, in the list parse_xml
\* returns (every merged cue expanded by _split_subtitle_entry) and after
\* apply_offset and the speaker renaming.
C6_SortedAfterEachStage ==
    DocumentAccepted =>
        /\ SortedByStart(extracted_sorted(xml_file))
        /\ SortedByStart(_merge_overlapping(extracted_sorted(xml_file)))
        /\ (Loaded => SortedByStart(self_subtitles))

\* the part of C6 before the expansion: the sort and the merge keep the order
C6_SortedBeforeSplit ==
    DocumentAccepted =>
        /\ SortedByStart(extracted_sorted(xml_file))
        /\ SortedByStart(_merge_overlapping(extracted_sorted(xml_file)))

\* the timing of a candidate as the extractor reads it: an element without
\* text counts as 0.0
TimingOf(element) ==
    IF element.text # <<>> THEN float(element.text) ELSE [ok |-> TRUE, value |-> R(0)]
MissingTiming(sound) == ~sound.start.present \/ ~sound.stop.present
UnparsableTiming(sound) ==
    ~MissingTiming(sound) /\ (~TimingOf(sound.start).ok \/ ~TimingOf(sound.stop).ok)
ValidCandidate(sound) ==
    /\ sound.tts
    /\ ~MissingTiming(sound) /\ ~UnparsableTiming(sound)
    /\ sound.text.present /\ strip(sound.text.text) # <<>>

RECURSIVE ValidCandidates(_)
ValidCandidates(sounds) ==
    IF sounds = <<>> THEN <<>>
    ELSE (IF ValidCandidate(Head(sounds))
          THEN <<[start |-> TimingOf(Head(sounds).start).value,
                  words |-> split(Head(sounds).text.text)]>>
          ELSE <<>>) \o ValidCandidates(Tail(sounds))

RECURSIVE WordsOfCandidates(_)
WordsOfCandidates(l) ==
    IF l = <<>> THEN <<>> ELSE Head(l).words \o WordsOfCandidates(Tail(l))
RECURSIVE WordsOfCues(_)
WordsOfCues(l) ==
    IF l = <<>> THEN <<>> ELSE split(Head(l).text) \o WordsOfCues(Tail(l))

\* C7: a candidate with a missing start or stop element or with an unparsable
\* number is skipped and extraction does not fail; the words of the returned
\* cues are the words of all valid candidates (timing parsable, trimmed text
\* not empty), candidate after candidate in start order.
C7_SkipsOnlyMalformed ==
    (DocumentAccepted /\ run_pc # "start") =>
        /\ message # "Error: Failed to parse XML file"
        /\ (run_pc = "loaded" \/ message = "Warning: No subtitles found in the XML file.") =>
              WordsOfCues(self_subtitles) =
                  WordsOfCandidates(sort_by_start(ValidCandidates(xml_file.sounds)))

\* a skipped candidate comes first, a valid one after it
C7_Witness ==
    /\ run_pc = "loaded"
    /\ Len(xml_file.sounds) = 2
    /\ UnparsableTiming(xml_file.sounds[1])
    /\ ValidCandidate(xml_file.sounds[2])
    /\ WordsOfCues(self_subtitles) = <<<<"a", ".">>, <<"b">>, <<"c">>>>

DocumentError ==
    \/ ~xml_file.wellformed
    \/ ~xml_file.duration.present
    \/ ~float(xml_file.duration.text).ok

\* C8: when the document is not well-formed or its duration attribute is
\* missing or not a number, parse_xml raises and returns no list, and
\* Console.run ends with the parse error and never writes the output file.
C8_DocumentErrorNoOutput ==
    (params.file = "ok" /\ DocumentError) =>
        /\ parse_xml(xml_file, max_words_per_line, words_per_second).raised # ""
        /\ srt_file = NoFile
        /\ self_subtitles = <<>>
        /\ run_pc \in {"start", "done"}
        /\ (run_pc = "done" => message = "Error: Failed to parse XML file")

\* a well-formed document whose duration is not a number, after the run
C8_Witness ==
    /\ run_pc = "done"
    /\ xml_file.wellformed /\ xml_file.duration.present
    /\ ~float(xml_file.duration.text).ok
    /\ ValidCandidate(xml_file.sounds[1])
    /\ message = "Error: Failed to parse XML file"

(***************************************************************************)
(* Properties of apply_offset (SpecOffset)                                 *)
(***************************************************************************)
SameTextSpeakerPosition(l, m) ==
    /\ Len(l) = Len(m)
    /\ \A i \in 1..Len(l) : l[i].text = m[i].text /\ l[i].speaker = m[i].speaker
SameDurations(l, m) ==
    /\ Len(l) = Len(m)
    /\ \A i \in 1..Len(l) : RSub(l[i].stop, l[i].start) = RSub(m[i].stop, m[i].start)
RoundTrip == Len(ao_offsets) = 2 /\ ao_offsets[2] = RNeg(ao_offsets[1])

\* C10 as stated: for every cue list and every delta d, apply_offset with d
\* and then with -d restores every start and stop, and no call changes a
\* cue's text, speaker, duration or position.
C10_RoundTripRestores ==
    /\ SameTextSpeakerPosition(self_subtitles, ao_original)
    /\ SameDurations(self_subtitles, ao_original)
    /\ (RoundTrip => self_subtitles = ao_original)

\* every start and stop, the delta and every sum of them is a whole number of
\* frames that the float holds exactly
IsWholeFrames(q, d) ==
    /\ q.d = 1 /\ d.d = 1
    /\ Abs(q.n) + Abs(d.n) <= Pow2(Precision)
WholeFrames(l, d) ==
    \A i \in 1..Len(l) : IsWholeFrames(l[i].start, d) /\ IsWholeFrames(l[i].stop, d)

\* C10 amended: no call changes a cue's text, speaker or position; when the
\* starts, the stops and the delta are whole frames held exactly, the call
\* adds the delta to every start and stop, keeps every duration, and the
\* call with -d after the call with d restores every start and stop.
C10_RoundTripWholeFrames ==
    /\ SameTextSpeakerPosition(self_subtitles, ao_original)
    /\ (Len(ao_offsets) >= 1 /\ WholeFrames(ao_original, ao_offsets[1])) =>
          /\ Len(ao_offsets) = 1 =>
                /\ SameDurations(self_subtitles, ao_original)
                /\ \A i \in 1..Len(ao_original) :
                      /\ self_subtitles[i].start =
                            RAdd(ao_original[i].start, ao_offsets[1])
                      /\ self_subtitles[i].stop =
                            RAdd(ao_original[i].stop, ao_offsets[1])
          /\ RoundTrip => self_subtitles = ao_original

\* two cues on whole frames, moved by 100 frames and back
C10_Witness ==
    /\ RoundTrip
    /\ ao_offsets[1] = R(100)
    /\ Len(ao_original) = 2
    /\ WholeFrames(ao_original, ao_offsets[1])
    /\ ao_original[1].start # ao_original[1].stop
    /\ self_subtitles = ao_original

(***************************************************************************)
(* Properties of MainWindow's offset handling (SpecWindow)                 *)
(***************************************************************************)
\* the list parse_xml extracted from the file the held list was read from
Extracted == parse_xml(mw_file, max_words_per_line, words_per_second).subtitles

RECURSIVE SumOfEntered(_)
SumOfEntered(l) == IF l = <<>> THEN 0 ELSE Head(l) + SumOfEntered(Tail(l))

\* C11 as stated: whenever a non-empty list is held, every start and stop is
\* the extracted value plus the current cumulative offset, which is the last
\* spin box value accepted since the load (0 right after it).
C11_OffsetIsCumulative ==
    mw_subtitles # <<>> =>
        /\ current_offset =
              (IF mw_entered = <<>> THEN R(0) ELSE R(mw_entered[Len(mw_entered)]))
        /\ Len(mw_subtitles) = Len(Extracted)
        /\ \A i \in 1..Len(mw_subtitles) :
              /\ mw_subtitles[i].start = fadd(Extracted[i].start, current_offset)
              /\ mw_subtitles[i].stop = fadd(Extracted[i].stop, current_offset)

\* every extracted start and stop is a whole frame, and stays one the float
\* holds exactly under every spin box value
ExtractedWholeFrames ==
    \A i \in 1..Len(Extracted) : \A o \in SpinValues :
        IsWholeFrames(Extracted[i].start, R(o)) /\ IsWholeFrames(Extracted[i].stop, R(o))

\* C11 amended: the current offset is the last accepted spin box value (0
\* after a load) and a cue keeps its text, speaker and position; the starts
\* and stops are the extracted values plus the current offset (one float
\* addition) right after the load and after the first change, and exactly so
\* after any number of changes when the extracted values are whole frames;
\* they are then not the extracted values plus the sum of the values
\* entered, unless the sum is the current offset.
C11_OffsetIsCumulativeWholeFrames ==
    mw_subtitles # <<>> =>
        /\ current_offset =
              (IF mw_entered = <<>> THEN R(0) ELSE R(mw_entered[Len(mw_entered)]))
        /\ SameTextSpeakerPosition(mw_subtitles, Extracted)
        /\ Len(mw_entered) <= 1 =>
              \A i \in 1..Len(mw_subtitles) :
                 /\ mw_subtitles[i].start = fadd(Extracted[i].start, current_offset)
                 /\ mw_subtitles[i].stop = fadd(Extracted[i].stop, current_offset)
        /\ ExtractedWholeFrames =>
              \A i \in 1..Len(mw_subtitles) :
                 /\ mw_subtitles[i].start = RAdd(Extracted[i].start, current_offset)
                 /\ mw_subtitles[i].stop = RAdd(Extracted[i].stop, current_offset)
                 /\ (R(SumOfEntered(mw_entered)) # current_offset =>
                       mw_subtitles[i].start #
                          RAdd(Extracted[i].start, R(SumOfEntered(mw_entered))))

\* a second file loaded over an offset list, then three changes ending at 5
C11_Witness ==
    /\ mw_loads = 2
    /\ mw_entered = <<50, -5, 5>>
    /\ ExtractedWholeFrames
    /\ mw_subtitles # <<>>
    /\ mw_subtitles[1].start = RAdd(Extracted[1].start, R(5))

(***************************************************************************)
(* Properties of the speaker renaming (Spec)                               *)
(***************************************************************************)
CuesWithSpeaker(l, k) == {i \in 1..Len(l) : l[i].speaker = k}
MatchedKeys(l, M) == {k \in DOMAIN M : CuesWithSpeaker(l, k) # {}}

\* C12: apply_speaker_replacements with mapping M sets the speaker to M[k] on
\* exactly the cues whose speaker was a key k (once, without chaining through
\* M), leaves the other cues and every start, stop and text unchanged, and
\* reports for k the number of cues that had speaker k; when no speaker is a
\* key nothing is reported and the list is unchanged.
C12_RenameStep ==
    [][(run_pc = "offset" /\ run_pc' = "replaced" /\ params.replace_speakers # <<>>) =>
          LET M == params.replace_speakers
          IN  /\ Len(self_subtitles') = Len(self_subtitles)
              /\ \A i \in 1..Len(self_subtitles) :
                    /\ self_subtitles'[i].start = self_subtitles[i].start
                    /\ self_subtitles'[i].stop = self_subtitles[i].stop
                    /\ self_subtitles'[i].text = self_subtitles[i].text
                    /\ self_subtitles'[i].speaker =
                          (IF self_subtitles[i].speaker \in DOMAIN M
                           THEN M[self_subtitles[i].speaker]
                           ELSE self_subtitles[i].speaker)
              /\ DOMAIN replacement_count' = MatchedKeys(self_subtitles, M)
              /\ \A k \in MatchedKeys(self_subtitles, M) :
                    replacement_count'[k] = Cardinality(CuesWithSpeaker(self_subtitles, k))
              /\ (MatchedKeys(self_subtitles, M) = {} =>
                    self_subtitles' = self_subtitles /\ replacement_count' = <<>>)]_vars

\* two cues of A and one of B renamed with A -> B, B -> C: B, B, C
C12_Witness ==
    /\ run_pc = "replaced"
    /\ params.replace_speakers # <<>>
    /\ Len(self_subtitles) = 3
    /\ [i \in 1..3 |-> self_subtitles[i].speaker] = <<<<"B">>, <<"B">>, <<"C">>>>
    /\ replacement_count = (<<"A">> :> 2) @@ (<<"B">> :> 1)

(***************************************************************************)
(* The timing constraint of the data model (SpecOffset)                    *)
(***************************************************************************)
TimingConstraint(cue) == RLeq(R(0), cue.start) /\ RLeq(cue.start, cue.stop)

\* C13: every cue the caller holds, as parse_xml returned it and after any
\* sequence of apply_offset calls, has 0 <= start <= stop.
C13_CuesWithinTimingConstraint ==
    \A i \in 1..Len(self_subtitles) : TimingConstraint(self_subtitles[i])

\* the part of C13 that is about apply_offset alone: lists extracted within
\* the constraint, after the calls
C13_OffsetKeepsTimingConstraint ==
    (\A i \in 1..Len(ao_original) : TimingConstraint(ao_original[i])) =>
        \A i \in 1..Len(self_subtitles) : TimingConstraint(self_subtitles[i])

(***************************************************************************)
(* Properties of the extraction of one candidate (Spec)                    *)
(***************************************************************************)
\* a speech candidate with both timing elements and a text that is not blank
Candidates ==
    {i \in 1..Len(xml_file.sounds) :
        /\ xml_file.sounds[i].tts
        /\ ~MissingTiming(xml_file.sounds[i])
        /\ xml_file.sounds[i].text.present
        /\ strip(xml_file.sounds[i].text.text) # <<>>}
AbsentText(element) == element.text = <<>>
UnparsableText(element) == element.text # <<>> /\ ~float(element.text).ok
\* the field as the extractor is said to read it
ZeroWhenAbsentOrUnparsable(element) ==
    IF AbsentText(element) \/ UnparsableText(element) THEN R(0)
    ELSE float(element.text).value
Emitted(l, sound) ==
    \E k \in 1..Len(l) :
        /\ l[k].start = ZeroWhenAbsentOrUnparsable(sound.start)
        /\ l[k].stop = ZeroWhenAbsentOrUnparsable(sound.stop)
        /\ l[k].text = strip(sound.text.text)

\* C14 as stated: a candidate whose start or stop element is present with
\* absent or unparsable text is emitted as a cue with 0.0 in that field
\* (its trimmed text not being empty).
C14_AbsentOrUnparsableIsZero ==
    (DocumentAccepted /\ run_pc # "start") =>
        \A i \in Candidates :
            LET sound == xml_file.sounds[i]
            IN  (\/ AbsentText(sound.start) \/ UnparsableText(sound.start)
                 \/ AbsentText(sound.stop) \/ UnparsableText(sound.stop)) =>
                    /\ Emitted(extracted_sorted(xml_file), sound)
                    /\ (Len(xml_file.sounds) = 1 /\ run_pc = "loaded" =>
                          Emitted(self_subtitles, sound))

\* C14 amended: a candidate whose start or stop element is present without
\* text is emitted with 0.0 in that field, provided the other field parses;
\* a candidate whose start or stop text does not parse is skipped, so the
\* extractor emits one cue per candidate with parsable or absent timing.
C14_AbsentIsZeroUnparsableSkipped ==
    (DocumentAccepted /\ run_pc # "start") =>
        /\ \A i \in Candidates :
              LET sound == xml_file.sounds[i]
              IN  ((AbsentText(sound.start) \/ AbsentText(sound.stop))
                   /\ ~UnparsableText(sound.start) /\ ~UnparsableText(sound.stop)) =>
                      /\ Emitted(extracted_sorted(xml_file), sound)
                      /\ (Len(xml_file.sounds) = 1 /\ run_pc = "loaded" =>
                            Emitted(self_subtitles, sound))
        /\ Len(extracted_sorted(xml_file)) =
              Cardinality({i \in Candidates :
                              /\ ~UnparsableText(xml_file.sounds[i].start)
                              /\ ~UnparsableText(xml_file.sounds[i].stop)})
        /\ ((\A i \in Candidates : UnparsableText(xml_file.sounds[i].start)) =>
              run_pc = "done" /\ self_subtitles = <<>>)

\* a candidate with <stop/> loaded next to one whose start does not parse:
\* the only cue is the first one, from frame 100 to frame 0
C14_Witness ==
    /\ run_pc = "loaded"
    /\ Len(xml_file.sounds) = 2
    /\ Candidates = {1, 2}
    /\ AbsentText(xml_file.sounds[1].stop)
    /\ UnparsableText(xml_file.sounds[2].start)
    /\ Len(self_subtitles) = 1
    /\ self_subtitles[1].start = R(100) /\ self_subtitles[1].stop = R(0)

(***************************************************************************)
(* Properties of a document without cues (Spec)                            *)
(***************************************************************************)
NoCueDocument ==
    /\ params.file = "ok"
    /\ ~DocumentError
    /\ ValidCandidates(xml_file.sounds) = <<>>

\* C15: for a document without an extractable cue parse_xml returns the
\* empty list and does not raise, which a document error never does;
\* Console.run then ends with the warning, having applied no offset and no
\* renaming and written no output file.
C15_NoCuesIsEmptySuccess ==
    /\ NoCueDocument =>
          /\ parse_xml(xml_file, max_words_per_line, words_per_second) =
                [raised |-> "", subtitles |-> <<>>]
          /\ self_subtitles = <<>>
          /\ replacement_count = <<>>
          /\ srt_file = NoFile
          /\ run_pc \in {"start", "done"}
          /\ (run_pc = "done" =>
                message = "Warning: No subtitles found in the XML file.")
    /\ (params.file = "ok" /\ DocumentError /\ run_pc = "done") =>
          message = "Error: Failed to parse XML file"
    /\ (params.file = "ok" /\ ~DocumentError /\ ~NoCueDocument) =>
          parse_xml(xml_file, max_words_per_line, words_per_second).subtitles # <<>>

\* Console.run ended on a document whose two candidates are both dropped (one
\* with a start that is no number, one with blank text), under a requested
\* offset and renaming
C15_Witness ==
    /\ NoCueDocument
    /\ run_pc = "done"
    /\ Len(xml_file.sounds) = 2
    /\ \A i \in 1..2 : xml_file.sounds[i].tts
    /\ UnparsableTiming(xml_file.sounds[1])
    /\ params.offset # R(0) /\ params.replace_speakers # <<>>
    /\ message = "Warning: No subtitles found in the XML file."

(***************************************************************************)
(* Properties of the speaker label (Spec)                                  *)
(***************************************************************************)
VoiceLabel(sound) ==
    IF sound.voice.present /\ sound.voice.text # <<>> THEN sound.voice.text
    ELSE Unknown
FirstUpperRestUnchanged(s) ==
    [i \in 1..Len(s) |-> IF i = 1 THEN upper(s[i]) ELSE s[i]]
FirstUpperRestLower(s) ==
    [i \in 1..Len(s) |-> IF i = 1 THEN upper(s[i]) ELSE lower(s[i])]
ExtractedWithSpeaker(sound, speaker) ==
    \E k \in 1..Len(extracted_sorted(xml_file)) :
        /\ extracted_sorted(xml_file)[k].start = TimingOf(sound.start).value
        /\ extracted_sorted(xml_file)[k].stop = TimingOf(sound.stop).value
        /\ extracted_sorted(xml_file)[k].text = strip(sound.text.text)
        /\ extracted_sorted(xml_file)[k].speaker = speaker
AllSpokenBy(l, speaker) ==
    \A k \in 1..Len(l) : l[k].speaker = speaker

\* C16 as stated: the speaker of every extracted cue is the candidate's voice
\* label with its first letter upper-cased and every other character left
\* unchanged ("Unknown" when the label is absent).
C16_SpeakerFirstLetterUpperRestUnchanged ==
    (DocumentAccepted /\ run_pc # "start") =>
        \A i \in 1..Len(xml_file.sounds) :
            ValidCandidate(xml_file.sounds[i]) =>
                /\ ExtractedWithSpeaker(xml_file.sounds[i],
                       FirstUpperRestUnchanged(VoiceLabel(xml_file.sounds[i])))
                /\ (Len(xml_file.sounds) = 1 /\ run_pc = "loaded" =>
                       AllSpokenBy(self_subtitles,
                           FirstUpperRestUnchanged(VoiceLabel(xml_file.sounds[i]))))

\* C16 amended: the speaker of every extracted cue is the candidate's voice
\* label with its first letter upper-cased and every other letter
\* lower-cased ("Unknown" when the label is absent).
C16_SpeakerFirstLetterUpperRestLower ==
    (DocumentAccepted /\ run_pc # "start") =>
        /\ \A i \in 1..Len(xml_file.sounds) :
              ValidCandidate(xml_file.sounds[i]) =>
                  /\ ExtractedWithSpeaker(xml_file.sounds[i],
                         FirstUpperRestLower(VoiceLabel(xml_file.sounds[i])))
                  /\ (Len(xml_file.sounds) = 1 /\ run_pc = "loaded" =>
                         AllSpokenBy(self_subtitles,
                             FirstUpperRestLower(VoiceLabel(xml_file.sounds[i]))))
        /\ \A k \in 1..Len(extracted_sorted(xml_file)) :
              \E i \in 1..Len(xml_file.sounds) :
                  /\ ValidCandidate(xml_file.sounds[i])
                  /\ extracted_sorted(xml_file)[k].speaker =
                        FirstUpperRestLower(VoiceLabel(xml_file.sounds[i]))

\* the candidate with the voice label "jO" loaded alone as the speaker "Jo",
\* the requested renaming not touching it
C16_Witness ==
    /\ run_pc = "replaced"
    /\ Len(xml_file.sounds) = 2
    /\ ValidCandidate(xml_file.sounds[1])
    /\ xml_file.sounds[1].voice.text = <<"j", "O">>
    /\ ~xml_file.sounds[2].tts
    /\ params.replace_speakers # <<>>
    /\ self_subtitles # <<>>
    /\ AllSpokenBy(self_subtitles, <<"J", "o">>)

(***************************************************************************)
(* Properties of the line breaks of merged cues (Spec)                     *)
(***************************************************************************)
Lines(text) == split_on(text, NL, <<>>)
HasLineBreak(text) == \E i \in 1..Len(text) : text[i] = NL

\* the cues can be cut into consecutive runs, one per line, the words of each
\* run being the words of its line
RECURSIVE CoverLines(_, _)
CoverLines(cues, lines) ==
    IF lines = <<>> THEN cues = <<>>
    ELSE \E j \in 0..Len(cues) :
            /\ WordsOfCues(SubSeq(cues, 1, j)) = split(Head(lines))
            /\ CoverLines(SubSeq(cues, j + 1, Len(cues)), Tail(lines))

Sequential(cues) ==
    \A k \in 1..(Len(cues) - 1) : cues[k + 1].start = cues[k].stop

\* the cues emitted for one merged cue
EmittedFor(cues, group) ==
    /\ CoverLines(cues, Lines(group.text))
    /\ Len(cues) >= Len(Lines(group.text))
    /\ \A k \in 1..Len(cues) :
          /\ cues[k].speaker = group.speaker
          /\ ~HasLineBreak(cues[k].text)
    /\ Sequential(cues)
    /\ cues[1].start = group.start /\ cues[Len(cues)].stop = group.stop

RECURSIVE EmittedForEach(_, _)
EmittedForEach(cues, groups) ==
    IF groups = <<>> THEN cues = <<>>
    ELSE \E j \in 1..Len(cues) :
            /\ EmittedFor(SubSeq(cues, 1, j), Head(groups))
            /\ EmittedForEach(SubSeq(cues, j + 1, Len(cues)), Tail(groups))

\* C17: line breaks are segment boundaries and are never re-joined: no
\* sub-cue of _split_subtitle_entry holds words of two lines of the source
\* text, no cue parse_xml returns has a line break in its text, and k merged
\* overlapping cues (the k lines of the merged text) are emitted as at least
\* k sequential cues that all carry the combined speaker label.
C17_LineBreaksAreBoundaries ==
    (DocumentAccepted /\ run_pc # "start") =>
        /\ \A g \in 1..Len(_merge_overlapping(extracted_sorted(xml_file))) :
              EmittedFor(
                  _split_subtitle_entry(
                      _merge_overlapping(extracted_sorted(xml_file))[g],
                      max_words_per_line, words_per_second),
                  _merge_overlapping(extracted_sorted(xml_file))[g])
        /\ (run_pc = "loaded" =>
              /\ EmittedForEach(self_subtitles,
                                _merge_overlapping(extracted_sorted(xml_file)))
              /\ Len(self_subtitles) >= Len(extracted_sorted(xml_file)))
        /\ (Loaded => \A k \in 1..Len(self_subtitles) :
                          ~HasLineBreak(self_subtitles[k].text))

\* two overlapping candidates, "a. b c" by A and "Hi" by B, merged into one
\* cue of two lines and loaded as the three cues "a.", "b c", "Hi" of A/B
C17_Witness ==
    /\ run_pc = "loaded"
    /\ Len(extracted_sorted(xml_file)) = 2
    /\ Len(_merge_overlapping(extracted_sorted(xml_file))) = 1
    /\ Len(Lines(_merge_overlapping(extracted_sorted(xml_file))[1].text)) = 2
    /\ Len(self_subtitles) = 3
    /\ self_subtitles[2].text = <<"b", " ", "c">>
    /\ self_subtitles[3].text = Hi
    /\ AllSpokenBy(self_subtitles, <<"A", "/", "B">>)

(***************************************************************************)
(* Properties of the sentence boundaries (SpecSplit)                       *)
(***************************************************************************)
Terminators == {".", "!", "?", ":"}
Terminated(word) == word # <<>> /\ word[Len(word)] \in Terminators
\* the terminated words of a text that are not its last word
InnerTerminated(words) ==
    {j \in 1..(Len(words) - 1) : Terminated(words[j])}

\* C18: for every max_words_per_line >= 1, a word of the output of
\* _split_subtitle_entry that ends with '.', '!', '?' or ':' is the last word
\* of its segment, also when the segment is below the word cap: every such
\* word of the source that another word follows closes a segment, the word
\* after it opening the next one.
C18_SentenceEndClosesSegment ==
    (sp_pc = "returned" /\ max_words_per_line >= 1) =>
        /\ \A i \in 1..Len(sp_result) :
              InnerTerminated(split(sp_result[i].text)) = {}
        /\ Len(sp_result) >=
              1 + Cardinality(InnerTerminated(split(sp_subtitle.text)))
        /\ \A j \in InnerTerminated(split(sp_subtitle.text)) :
              \E i \in 1..(Len(sp_result) - 1) :
                  /\ split(sp_result[i].text)[Len(split(sp_result[i].text))] =
                        split(sp_subtitle.text)[j]
                  /\ split(sp_result[i + 1].text)[1] =
                        split(sp_subtitle.text)[j + 1]

\* "d? e: f! g" under the cap 3: four segments of one word each
C18_Witness ==
    /\ sp_pc = "returned"
    /\ max_words_per_line = MaxCap
    /\ sp_subtitle.text = <<"d", "?", " ", "e", ":", " ", "f", "!", " ", "g">>
    /\ Len(sp_result) = 4
    /\ sp_result[2].text = <<"e", ":">>
    /\ sp_result[4].text = <<"g">>

(***************************************************************************)
(* Properties of the words of the sub-cues (SpecSplit)                     *)
(***************************************************************************)
\* C19: splitting loses, duplicates and reorders no word: the words of the
\* sub-cues of _split_subtitle_entry, in order, are the whitespace-separated
\* words of the source text, every sub-cue holds at least one word, and a
\* cue of w words under the cap m gives at least ceil(w/m) sub-cues (22
\* words under the cap 10: at least 3).
C19_SplitKeepsWords ==
    sp_pc = "returned" =>
        /\ WordsOfCues(sp_result) = split(sp_subtitle.text)
        /\ \A i \in 1..Len(sp_result) : split(sp_result[i].text) # <<>>
        /\ Len(sp_result) * max_words_per_line >= Len(split(sp_subtitle.text))
        /\ (Len(split(sp_subtitle.text)) = 22 /\ max_words_per_line = 10 =>
              Len(sp_result) >= 3)

\* the 22 words without a sentence end under the cap 10: sub-cues of 10, 10
\* and 2 words
C19_Witness ==
    /\ sp_pc = "returned"
    /\ sp_subtitle.text = Words22(0)
    /\ max_words_per_line = 10
    /\ Len(sp_result) = 3
    /\ Len(split(sp_result[1].text)) = 10
    /\ Len(split(sp_result[2].text)) = 10
    /\ sp_result[3].text = <<"e", " ", "f">>

(***************************************************************************)
(* Properties of the minimum duration (SpecSplit)                          *)
(***************************************************************************)
SplitSegments == split_segments(sp_subtitle.text, max_words_per_line)
Span == fsub(sp_subtitle.stop, sp_subtitle.start)
Scaled == scaled_durations(SplitSegments, Span, words_per_second)
\* the segments the 12-frame floor raises, and the total after raising them
Raised == {k \in 1..Len(Scaled) : RLess(Scaled[k], min_duration_frames)}
RaisedTotal ==
    fsum([k \in 1..Len(Scaled) |->
             IF k \in Raised THEN min_duration_frames ELSE Scaled[k]])
FinalDuration(i) == RSub(sp_result[i].stop, sp_result[i].start)
FloorRaises ==
    /\ sp_pc = "returned"
    /\ Len(sp_result) >= 2
    /\ RLess(R(0), Span)
    /\ Raised # {}

\* C20 as stated: for a cue of positive span, whenever the 12-frame floor
\* raises a segment the raised total exceeds the span, the second rescale
\* runs, and every raised segment ends with a final duration strictly below
\* 12 frames; all final durations are at least 12 frames only when no segment
\* needed the floor.
C20_FloorNeverSurvives ==
    FloorRaises =>
        /\ RLess(Span, RaisedTotal)
        /\ \A k \in Raised : RLess(FinalDuration(k), min_duration_frames)
        /\ \E i \in 1..Len(sp_result) :
              RLess(FinalDuration(i), min_duration_frames)

\* the stops of the raised segments, by the total after raising them
RescaledStops(result, raised, back) ==
    \A k \in raised :
        /\ RLess(back, min_duration_frames)
        /\ (k < Len(result) => result[k].stop = fadd(result[k].start, back))
FlooredStops(result, raised) ==
    \A k \in raised :
        k < Len(result) =>
            result[k].stop = fadd(result[k].start, min_duration_frames)
StopsOfRaised(result, scaled, raised, span, total) ==
    /\ Len(result) = Len(scaled)
    /\ RLess(span, total) =>
          RescaledStops(result, raised, fmul(min_duration_frames, fdiv(span, total)))
    /\ ~RLess(span, total) => FlooredStops(result, raised)

\* C20 amended: for a cue of positive span with a raised segment, the second
\* rescale runs exactly when the rounded total of the raised durations
\* exceeds the span; then every raised segment gets 12 * span / total, which
\* is strictly below 12 frames, also when the span is at least 12 frames
\* times the number of segments.  When the total does not exceed the span
\* (the proportional durations fell below 12 frames by rounding only), no
\* rescale runs and the raised segments keep the 12 frames.  Every sub-cue
\* but the last stops at its start plus its duration, rounded.
C20_FloorSurvivesUnlessRescaled ==
    FloorRaises => StopsOfRaised(sp_result, Scaled, Raised, Span, RaisedTotal)

\* a cue of 36 frames cut into segments of 1, 2 and 1 words: 36 is 12 frames
\* times 3, the segments of one word are raised from 9 to 12 frames and end
\* below 12 frames after the rescale
C20_Witness ==
    /\ FloorRaises
    /\ Len(sp_result) = 3
    /\ RLeq(RMul(min_duration_frames, R(Len(sp_result))), Span)
    /\ Raised = {1, 3}
    /\ RLess(Span, RaisedTotal)
    /\ RLess(FinalDuration(1), min_duration_frames)
    /\ RLess(FinalDuration(3), min_duration_frames)
    /\ RLess(min_duration_frames, FinalDuration(2))

\* a cue of 36 frames cut into three segments of one word: each is raised to
\* 12 frames, the total is the span, and all three keep the 12 frames
C20_FloorSurvives ==
    /\ FloorRaises
    /\ Raised = {1, 2, 3}
    /\ ~RLess(Span, RaisedTotal)
    /\ \A i \in 1..3 : FinalDuration(i) = min_duration_frames

(***************************************************************************)
(* Properties of the speaking rate (SpecSplit)                             *)
(***************************************************************************)
\* C21 as stated: the speaking rate does not influence the result: for the
\* same cue and word cap _split_subtitle_entry returns the same sub-cues
\* with the same start and stop values under every positive rate.
C21_RateHasNoInfluence ==
    sp_pc = "returned" =>
        \A rate \in SplitRates :
            sp_result =
                _split_subtitle_entry(sp_subtitle, max_words_per_line, rate)

RAbs(q) == IF q.n < 0 THEN RNeg(q) ELSE q
WordCounts(segments) == [k \in 1..Len(segments) |-> Len(split(segments[k]))]
RECURSIVE SumOf(_, _)
SumOf(counts, i) == IF i > Len(counts) THEN 0 ELSE counts[i] + SumOf(counts, i + 1)
\* span * words_i / total_words, exactly
Proportional(span, counts, total, k) == RDiv(RMul(span, R(counts[k])), R(total))
\* each duration is the proportional share up to the rounding of the
\* divisions, the sum and the product that produce it
WithinRounding(scaled, span, counts, total) ==
    \A k \in 1..Len(scaled) :
        RLeq(RMul(RAbs(RSub(scaled[k], Proportional(span, counts, total, k))),
                  R(Pow2(Precision))),
             RMul(RAbs(Proportional(span, counts, total, k)),
                  R(Len(scaled) + 3)))
SameSegmentation(result, other, subtitle) ==
    /\ Len(result) = Len(other)
    /\ \A k \in 1..Len(result) :
          /\ result[k].text = other[k].text
          /\ result[k].speaker = other[k].speaker
    /\ result[1].start = subtitle.start /\ other[1].start = subtitle.start
    /\ result[Len(result)].stop = subtitle.stop
    /\ other[Len(other)].stop = subtitle.stop
IdealSum(segments, rate) ==
    fsum([k \in 1..Len(segments) |-> fdiv(R(Len(split(segments[k]))), rate)])

\* C21 amended: the speaking rate changes the result by rounding only: under
\* every rate the sub-cues have the same texts and speakers, the first starts
\* at the source start and the last stops at the source stop, the ideal sum
\* is positive (the equal-division fallback is not taken), and before
\* flooring segment i receives span * words_i / total_words up to the
\* rounding of the floating-point operations (a relative error of at most
\* (number of segments + 3) units of rounding).
C21_RateChangesRoundingOnly ==
    sp_pc = "returned" =>
        \A rate \in SplitRates :
            /\ SameSegmentation(
                   sp_result,
                   _split_subtitle_entry(sp_subtitle, max_words_per_line, rate),
                   sp_subtitle)
            /\ (Len(sp_result) >= 2 =>
                  /\ RLess(R(0), IdealSum(SplitSegments, rate))
                  /\ WithinRounding(
                         scaled_durations(SplitSegments, Span, rate), Span,
                         WordCounts(SplitSegments),
                         SumOf(WordCounts(SplitSegments), 1)))

\* a cue whose sub-cue boundaries under the rate 3 differ from the ones
\* returned under the rate 2.5
C21_Witness ==
    /\ sp_pc = "returned"
    /\ words_per_second = DEFAULT_WORDS_PER_SECOND
    /\ Len(sp_result) >= 2
    /\ RLess(R(0), Span)
    /\ sp_result # _split_subtitle_entry(sp_subtitle, max_words_per_line, R(3))
    /\ \E k \in 1..Len(sp_result) :
          Scaled[k] # scaled_durations(SplitSegments, Span, R(3))[k]

(***************************************************************************)
(* Properties of the list parse_xml returns (Spec)                         *)
(***************************************************************************)
\* every candidate that becomes a cue has start <= stop
CandidatesOrdered ==
    \A i \in 1..Len(xml_file.sounds) :
        ValidCandidate(xml_file.sounds[i]) =>
            RLeq(TimingOf(xml_file.sounds[i].start).value,
                 TimingOf(xml_file.sounds[i].stop).value)
\* the places where a split cue is followed by another cue
SplitThenNext(l) ==
    {i \in 2..(Len(l) - 1) :
        /\ l[i].start = l[i - 1].stop
        /\ RLess(l[i].stop, l[i + 1].start)}

\* C22: for a document whose candidates all have start <= stop, the cues of
\* the list parse_xml returns do not overlap: stop[i] <= start[i+1] for every
\* adjacent pair, the last sub-cue of a split cue and the cue after it
\* included.
C22_NoOverlapAfterSplit ==
    (DocumentAccepted /\ CandidatesOrdered) =>
        /\ NoOverlap(parse_xml(xml_file, max_words_per_line,
                               words_per_second).subtitles)
        /\ (run_pc = "loaded" => NoOverlap(self_subtitles))

\* "a. b c" from 0 to 50 and "Hi" from 60 to 90 loaded as three cues: the
\* two sub-cues of the first candidate, then the second candidate
C22_Witness ==
    /\ DocumentAccepted /\ CandidatesOrdered
    /\ run_pc = "loaded"
    /\ Len(xml_file.sounds) = 2
    /\ Len(self_subtitles) = 3
    /\ SplitThenNext(self_subtitles) = {2}
    /\ self_subtitles[2].stop = R(50)
    /\ self_subtitles[3].start = R(60)

(***************************************************************************)
(* Properties of the list Console.run saves (Spec)                         *)
(***************************************************************************)
EffectiveCap ==
    IF params.max_words # 0 THEN params.max_words ELSE DEFAULT_MAX_WORDS_PER_LINE
\* the cue with the offset added once and the renaming applied once
OffsetOnceRenamedOnce(cue, offset, replace_map) ==
    [start |-> fadd(cue.start, offset),
     stop |-> fadd(cue.stop, offset),
     text |-> cue.text,
     speaker |-> IF cue.speaker \in DOMAIN replace_map
                 THEN replace_map[cue.speaker] ELSE cue.speaker]
ExpectedOf(extracted, offset, replace_map) ==
    [i \in 1..Len(extracted) |->
        OffsetOnceRenamedOnce(extracted[i], offset, replace_map)]
ReachedSave ==
    \/ run_pc = "reprocessed"
    \/ /\ run_pc = "done"
       /\ message \in {"Successfully saved", "Error: Failed to save SRT file"}

\* C23: for every combination of offset, replace map and max-words, the list
\* Console.run passes to save_srt is the list extracted with the effective
\* word cap (the given max-words when set and not 0, otherwise 10) with the
\* offset added exactly once to every start and stop and the renaming
\* applied exactly once, with and without the re-parse; what is written is
\* made of that list.
C23_SavedListIsOffsetOnceRenamedOnce ==
    ReachedSave =>
        /\ max_words_per_line = EffectiveCap
        /\ self_subtitles =
              ExpectedOf(parse_xml(xml_file, EffectiveCap, words_per_second).subtitles,
                         params.offset, params.replace_speakers)
        /\ (srt_file.written =>
              \E written \in 0..Len(self_subtitles) :
                  srt_file.blocks = SubSeq(save_srt(self_subtitles), 1, written))

\* a run with an offset, a renaming that matches and the word cap 1, ended
\* after the re-parse with every cue written
C23_Witness ==
    /\ run_pc = "done"
    /\ message = "Successfully saved"
    /\ params.offset = R(100)
    /\ params.replace_speakers # <<>>
    /\ params.max_words = 1
    /\ max_words_per_line = 1
    /\ Len(self_subtitles) >= 3
    /\ \E i \in 1..Len(self_subtitles) : self_subtitles[i].speaker = <<"B">>
    /\ self_subtitles #
          parse_xml(xml_file, DEFAULT_MAX_WORDS_PER_LINE, words_per_second).subtitles
    /\ Len(srt_file.blocks) = Len(self_subtitles)

====
